---- MODULE Spec2Model ----
(***************************************************************************)
(* Model of the key reconciliation layer of the Outline management bot:    *)
(* tgbot/models/outline_server.py (server_* and server_key_* functions)    *)
(* and tgbot/services/outline_server_api.py (OutlineVPN REST client), of   *)
(* the conversations of tgbot/handlers/private/manage_outline_server.py    *)
(* and of the tracker of tgbot/middlewares/dbmiddleware.py.                *)
(*                                                                         *)
(* Every coroutine is split at its await points: one action per await.     *)
(* A call is a task; task[t].pc is the await the coroutine is parked on.   *)
(***************************************************************************)
EXTENDS Integers, FiniteSets, Sequences, TLC

\* ------------------------------------------------------------------ bounds
\* Key ids the remote server hands out are 0..MaxKeyId.
MaxKeyId == 1
\* Number of events in one behaviour: calls (server_key_sync, server_key_create,
\* server_key_delete) and out-of-band changes of the remote servers.
MaxEvents == 3

\* ------------------------------------------------------------- value sets
\* OutlineServer.ip values (IPAddressType stores int(ip)): the servers stored at
\* start, and the addresses a call can name (3 is never stored).
ServerIps == {1, 2}
CallIps == {1, 2, 3}
KeyIds == 0..MaxKeyId
\* Concurrent handler invocations (coroutines of the event loop).
Tasks == {1, 2}
\* No session holds the write lock.
NoTask == {}
\* The key_name argument of server_key_create: "" is no name.
KeyNames == {"", "a"}

\* ----------------------------------------------------------------- records
\* OutlineServer.url of the server stored under ip: the base url of its
\* management API; remote endpoints are identified by it.
UrlOf(ip) == IF ip = 1 THEN "https://s1" ELSE IF ip = 2 THEN "https://s2" ELSE "https://s3"
Urls == {UrlOf(ip) : ip \in ServerIps}
\* The server whose keys are edited out of band (in the Outline manager).
ManagedUrls == {UrlOf(1)}

\* A row of table outline_server.
ServerRow(ip) == [ip |-> ip, url |-> UrlOf(ip), name |-> "my server", is_active |-> TRUE]

\* The key object the remote server keeps for an access key (one element of
\* accessKeys plus its entry of bytesTransferredByUserId).
RemoteKey(n, c, b) ==
    [name |-> n, password |-> <<"pw", c>>, port |-> 1000 + c,
     method |-> "chacha20", access_url |-> <<"ss", c>>, used_bytes |-> b]
\* The values a remote key takes here: as created (name "", no traffic), renamed,
\* used, and re-issued with other credentials.
NewKey == RemoteKey("", 1, 0)
RemoteKeyVals == {NewKey, RemoteKey("a", 1, 0), RemoteKey("", 1, 5), RemoteKey("", 2, 0)}

\* dataclass OutlineKey(frozen=True): equality and hash over all seven fields.
OutlineKey(id, n, pw, po, me, au, ub) ==
    [key_id |-> id, name |-> n, password |-> pw, port |-> po, method |-> me,
     access_url |-> au, used_bytes |-> ub]

\* A row of table server_key; primary key (server_ip, key_id).
ServerKey(ip, k) ==
    [server_ip |-> ip, key_id |-> k.key_id, name |-> k.name, password |-> k.password,
     port |-> k.port, method |-> k.method, access_url |-> k.access_url,
     used_bytes |-> k.used_bytes]

\* ------------------------------------------------------------------- state
VARIABLES
    servers,    \* table outline_server: set of rows
    keys,       \* table server_key: set of committed rows
    remote,     \* remote[url]: function from the key ids alive on that server to RemoteKeyVals
    dirty,      \* TRUE iff remote changed since the last call started
    nev,        \* number of calls started and out-of-band changes so far
    dbWriter,   \* {t} for the task t holding the open write transaction, or NoTask
    task,       \* task[t]: the coroutine of call t
    prev,       \* summary of the call that finished last
    conc,       \* TRUE: calls interleave at await points; FALSE: one call at a time
    fsm,        \* the FSM storage: fsm[key] is the state tag and data bag kept under key
    turn,       \* the update handled last: who sent it, the handler, what it met and did
    flow,       \* flow[sc]: the texts scope sc has sent since its /newserver, in order
    nturns,     \* number of updates handled so far
    active,     \* the scopes that send updates
    users,      \* table user: set of rows
    members,    \* table chat_member: set of rows
    track,      \* the message the tracker met last: what it looked up, found and did
    chats,      \* table chat: set of rows
    log         \* the calls the caller of a scenario has taken the result of, in order

\* The variables of the tracker, of the conversations, and of the calls in progress.
trackVars == <<users, members, track, chats>>
chatVars == <<fsm, turn, flow, nturns, active, trackVars, log>>
callVars == <<dirty, nev, dbWriter, task, prev, conc>>

vars == <<servers, keys, remote, dirty, nev, dbWriter, task, prev, conc, chatVars>>

\* ----------------------------------------------------------- return values
RetNone == [kind |-> "None", rows |-> {}]
RetFalse == [kind |-> "False", rows |-> {}]
RetTrue == [kind |-> "True", rows |-> {}]
RetRaised == [kind |-> "raised", rows |-> {}]
RetList(rows) == [kind |-> "list", rows |-> rows]
RetRow(rows) == [kind |-> IF rows = {} THEN "None" ELSE "row", rows |-> rows]

\* The frame of a call. Program locals: url (server.url), server_keys (the parsed
\* accessKeys), vpn_keys, db_keys, insert_values, keys_to_delete, keys_to_update,
\* key (the OutlineKey of server_key_create), tx (the rows the open session sees),
\* ret (the value returned or "raised"). Observation only: remote_ok (the remote
\* request the call depends on succeeded: get_keys returned, create_key returned,
\* delete_key returned True), failed (the step that failed), stmts (the write
\* statements executed, as <<kind, key_id>>), reqs (the HTTP requests sent),
\* repeat (the call that finished last was a server_key_sync of the same server
\* and remote has not changed since that call started), again (repeat, and that
\* call's fetch succeeded), prevRet (what that call returned), preKeys and
\* preServers (the tables when the call started).
IdleTask ==
    [op |-> "none", pc |-> "idle", ip |-> 0, key_id |-> 0, key_name |-> "",
     url |-> "", server_keys |-> <<>>, vpn_keys |-> {}, db_keys |-> {},
     insert_values |-> {}, keys_to_delete |-> {}, keys_to_update |-> {},
     tx |-> {}, key |-> {}, ret |-> RetNone,
     remote_ok |-> FALSE, failed |-> "", stmts |-> {}, reqs |-> {}, repeat |-> FALSE,
     again |-> FALSE,
     prevRet |-> RetNone, preKeys |-> {}, preServers |-> {}]

NoPrev == [op |-> "none", ip |-> 0, ok |-> FALSE, ret |-> RetNone]

\* ------------------------------------------------------------ persistence
\* select(OutlineServer).where(OutlineServer.ip == ip) ... result.scalar()
server_read(ip) == {s \in servers : s.ip = ip}

\* select(ServerKey).where(ServerKey.server_ip == ip): the rows of one server.
\* The ORDER BY name of the query is not modelled: the result is the row set.
server_key_list(ip) == {r \in keys : r.server_ip = ip}

\* select(ServerKey).where(server_ip == ip, key_id == id) ... result.scalar()
server_key_read(ip, id) == {r \in keys : r.server_ip = ip /\ r.key_id = id}

\* The OutlineKey built from a ServerKey row (the db_keys comprehension).
RowKey(r) ==
    OutlineKey(r.key_id, r.name, r.password, r.port, r.method, r.access_url, r.used_bytes)

\* Variant of InsertFails: the foreign key of server_key is not enforced.
InsertFails_NoForeignKey(tbl, rows) ==
    \E r \in rows : \E q \in tbl : q.server_ip = r.server_ip /\ q.key_id = r.key_id

\* Whether INSERT of rows into table tbl violates a constraint: the primary key
\* (server_ip, key_id) or the foreign key server_key.server_ip -> outline_server.ip.
InsertFails(tbl, rows) ==
    \/ \E r \in rows : \E q \in tbl : q.server_ip = r.server_ip /\ q.key_id = r.key_id
    \/ \E r \in rows : \A s \in servers : s.ip # r.server_ip

\* Variant of DeleteKeyRow: the statement deletes no row.
DeleteKeyRow_Keeps(tbl, ip, id) == tbl

\* Variant of DeleteKeyRow: the statement selects by key id alone.
DeleteKeyRow_AnyServer(tbl, ip, id) == {r \in tbl : r.key_id # id}

\* delete(ServerKey).where(server_ip == ip, key_id == id)
\* Table user_key references server_key with ondelete RESTRICT, but no code
\* writes user_key: it stays empty and refuses no delete.
DeleteKeyRow(tbl, ip, id) == {r \in tbl : ~(r.server_ip = ip /\ r.key_id = id)}

\* Variant of UpdateKeyRow: an update whose values() leaves out used_bytes.
UpdateKeyRow_WithoutUsedBytes(tbl, ip, k) ==
    {IF r.server_ip = ip /\ r.key_id = k.key_id
     THEN ServerKey(ip, [k EXCEPT !.used_bytes = r.used_bytes]) ELSE r : r \in tbl}

\* update(ServerKey).where(server_ip == ip, key_id == k.key_id).values(name.., used_bytes)
UpdateKeyRow(tbl, ip, k) ==
    {IF r.server_ip = ip /\ r.key_id = k.key_id THEN ServerKey(ip, k) ELSE r : r \in tbl}

\* ------------------------------------------------------------- scheduling
Idle(t) == task[t].pc = "idle"
\* A new call may start: always when calls interleave; otherwise only as task 1
\* and only when no call is in progress.
Ready(t) ==
    /\ Idle(t)
    /\ (conc \/ (t = 1 /\ \A u \in Tasks : Idle(u)))
\* The runs are bounded by the number of calls started.
CanStart(t) ==
    /\ nev < MaxEvents
    /\ Ready(t)
\* The rows a statement of task t operates on: its open transaction, else the
\* committed table.
TxView(t) == IF dbWriter = {t} THEN task[t].tx ELSE keys
\* A write statement of task t can execute: no other session holds the write lock.
\* (SQLite: a second writer waits for the lock; the wait is modelled, its
\* timeout is not.)
CanWrite(t) == dbWriter \in {NoTask, {t}}

\* The frame of a new call. The tables at the start are recorded only when calls
\* run one at a time: they are what the call's result is compared with.
Frame(t, ip, op) ==
    LET repeat == op = "sync" /\ prev.op = "sync" /\ prev.ip = ip /\ ~dirty
    IN [IdleTask EXCEPT !.op = op, !.ip = ip, !.repeat = repeat,
                        !.again = repeat /\ prev.ok,
                        !.prevRet = IF repeat THEN prev.ret ELSE RetNone,
                        !.preKeys = IF conc THEN {} ELSE keys,
                        !.preServers = IF conc THEN {} ELSE servers]

\* ------------------------------------------------------- OutlineVPN client
\* get_keys, the result list: one OutlineKey per element of accessKeys, with
\* used_bytes = metrics["bytesTransferredByUserId"].get(id) or 0.
get_keys(server_keys, metrics) ==
    {OutlineKey(id, server_keys[id].name, server_keys[id].password, server_keys[id].port,
                server_keys[id].method, server_keys[id].access_url,
                IF id \in DOMAIN metrics THEN metrics[id] ELSE 0) : id \in DOMAIN server_keys}

\* get_transferred_data: bytesTransferredByUserId of the remote server behind url.
get_transferred_data(url) == [id \in DOMAIN remote[url] |-> remote[url][id].used_bytes]

\* ------------------------------------------------------- server_key_sync
KeyIdList(ks) == {k.key_id : k \in ks}

\* Variant of InsertValues: every remote key is inserted, stored or not.
InsertValues_Unfiltered(ip, vpn_keys, db_keys) == {ServerKey(ip, k) : k \in vpn_keys}

\* insert_values: the remote keys whose id is not in db_key_id_list, as rows.
InsertValues(ip, vpn_keys, db_keys) ==
    {ServerKey(ip, k) : k \in {v \in vpn_keys : v.key_id \notin KeyIdList(db_keys)}}

\* keys_to_delete: the persisted keys whose id is not in vpn_key_id_list.
KeysToDelete(vpn_keys, db_keys) == {k \in db_keys : k.key_id \notin KeyIdList(vpn_keys)}

\* Variant of KeysToUpdate: the remote keys, equal to a stored key or not.
KeysToUpdate_Unfiltered(vpn_keys, db_keys) == vpn_keys \ KeysToDelete(vpn_keys, db_keys)

\* keys_to_update = set(vpn_keys) - set(keys_to_delete) - set(db_keys)
KeysToUpdate(vpn_keys, db_keys) == (vpn_keys \ KeysToDelete(vpn_keys, db_keys)) \ db_keys

\* Variant of SyncCall: no "if not server: return False"; the missing server is
\* an exception inside the try block.
SyncCall_NoServerCheck(t, ip) ==
    /\ CanStart(t)
    /\ task' = [task EXCEPT ![t] =
          IF server_read(ip) = {}
          THEN [Frame(t, ip, "sync") EXCEPT !.pc = "sync_finally", !.failed = "server"]
          ELSE [Frame(t, ip, "sync") EXCEPT !.pc = "sync_get_keys",
                   !.url = (CHOOSE s \in server_read(ip) : TRUE).url]]
    /\ dirty' = FALSE
    /\ prev' = NoPrev
    /\ nev' = nev + 1
    /\ UNCHANGED <<servers, keys, remote, dbWriter, conc, chatVars>>

\* server_key_sync up to "if not server: return False".
SyncStart(t, ip) ==
    /\ Ready(t)
    /\ task' = [task EXCEPT ![t] =
          IF server_read(ip) = {}
          THEN [Frame(t, ip, "sync") EXCEPT !.pc = "done", !.ret = RetFalse]
          ELSE [Frame(t, ip, "sync") EXCEPT !.pc = "sync_get_keys",
                   !.url = (CHOOSE s \in server_read(ip) : TRUE).url]]
    /\ dirty' = FALSE
    /\ prev' = NoPrev
    /\ nev' = nev + 1
    /\ UNCHANGED <<servers, keys, remote, dbWriter, conc, chatVars>>

SyncCall(t, ip) == nev < MaxEvents /\ SyncStart(t, ip)

\* The answers to GET {api_url}/access-keys/: status 200 with a JSON body that
\* holds accessKeys, status 200 with another JSON body ({} or one without
\* accessKeys), status 200 with a body that is no JSON, another status, and no
\* answer (aiohttp raises).
KeyListAnswers == {"200 accessKeys", "200 other json", "200 no json", "other", "raised"}

\* server_keys as the request leaves it: the accessKeys of the body, else nothing.
KeyListOf(answer, url) == IF answer = "200 accessKeys" THEN remote[url] ELSE <<>>

\* Variant of HasKeyList: a request that brought no key list counts as an empty
\* list.
HasKeyList_Always(answer) == TRUE

\* get_keys goes on to the metrics request: "if server_keys and "accessKeys" in
\* server_keys"; else "if not server_keys or not metrics: raise Exception".
HasKeyList(answer) == answer = "200 accessKeys"

\* Variant of SyncGetKeys: the exception of a failed request leaves server_key_sync.
SyncGetKeys_Propagates(t) ==
    /\ task[t].pc = "sync_get_keys"
    /\ \E answer \in KeyListAnswers :
          task' = [task EXCEPT ![t] =
             IF HasKeyList(answer)
             THEN [@ EXCEPT !.pc = "sync_get_metrics",
                            !.server_keys = KeyListOf(answer, task[t].url),
                            !.reqs = @ \cup {"GET keys"}]
             ELSE [@ EXCEPT !.pc = "done", !.failed = "keys", !.ret = RetRaised,
                            !.reqs = @ \cup {"GET keys"}]]
    /\ UNCHANGED <<servers, keys, remote, dirty, nev, dbWriter, prev, conc, chatVars>>

\* get_keys: GET {api_url}/access-keys/. Status 200 with a JSON body continues to
\* the metrics request; anything else (other status, unparsable body, network
\* error) ends in an exception, caught by server_key_sync.
SyncGetKeys(t) ==
    /\ task[t].pc = "sync_get_keys"
    /\ \E answer \in KeyListAnswers :
          task' = [task EXCEPT ![t] =
             IF HasKeyList(answer)
             THEN [@ EXCEPT !.pc = "sync_get_metrics",
                            !.server_keys = KeyListOf(answer, task[t].url),
                            !.reqs = @ \cup {"GET keys"}]
             ELSE [@ EXCEPT !.pc = "sync_finally", !.failed = "keys",
                            !.reqs = @ \cup {"GET keys"}]]
    /\ UNCHANGED <<servers, keys, remote, dirty, nev, dbWriter, prev, conc, chatVars>>

\* Variant of SyncGetMetrics: a failed metrics request counts as no traffic and the
\* reconciliation goes on.
SyncGetMetrics_Lenient(t) ==
    /\ task[t].pc = "sync_get_metrics"
    /\ \E ok \in BOOLEAN :
          task' = [task EXCEPT ![t] =
             IF ok
             THEN [@ EXCEPT !.pc = "sync_read_db", !.remote_ok = TRUE,
                            !.vpn_keys = get_keys(task[t].server_keys, get_transferred_data(task[t].url)),
                            !.reqs = @ \cup {"GET metrics"}]
             ELSE [@ EXCEPT !.pc = "sync_read_db", !.failed = "metrics",
                            !.vpn_keys = get_keys(task[t].server_keys, <<>>),
                            !.reqs = @ \cup {"GET metrics"}]]
    /\ UNCHANGED <<servers, keys, remote, dirty, nev, dbWriter, prev, conc, chatVars>>

\* get_transferred_data: GET {api_url}/metrics/transfer, then the result list of
\* get_keys. A failed metrics request raises.
SyncGetMetrics(t) ==
    /\ task[t].pc = "sync_get_metrics"
    /\ \E ok \in BOOLEAN :
          task' = [task EXCEPT ![t] =
             IF ok
             THEN [@ EXCEPT !.pc = "sync_read_db", !.remote_ok = TRUE,
                            !.vpn_keys = get_keys(task[t].server_keys, get_transferred_data(task[t].url)),
                            !.reqs = @ \cup {"GET metrics"}]
             ELSE [@ EXCEPT !.pc = "sync_finally", !.failed = "metrics",
                            !.reqs = @ \cup {"GET metrics"}]]
    /\ UNCHANGED <<servers, keys, remote, dirty, nev, dbWriter, prev, conc, chatVars>>

\* key_list = await server_key_list(...), db_keys and the three batches.
SyncReadDb(t) ==
    /\ task[t].pc = "sync_read_db"
    /\ LET db_keys == {RowKey(r) : r \in server_key_list(task[t].ip)}
           vpn_keys == task[t].vpn_keys
       IN task' = [task EXCEPT ![t] =
             [@ EXCEPT !.pc = "sync_insert", !.db_keys = db_keys,
                       !.insert_values = InsertValues(task[t].ip, vpn_keys, db_keys),
                       !.keys_to_delete = KeysToDelete(vpn_keys, db_keys),
                       !.keys_to_update = KeysToUpdate(vpn_keys, db_keys)]]
    /\ UNCHANGED <<servers, keys, remote, dirty, nev, dbWriter, prev, conc, chatVars>>

\* Variant of SyncInsert: the insert is committed on its own.
SyncInsert_Autocommit(t) ==
    /\ task[t].pc = "sync_insert"
    /\ LET rows == task[t].insert_values
           st == {<<"insert", r.key_id>> : r \in rows}
       IN IF rows = {}
          THEN /\ task' = [task EXCEPT ![t].pc = "sync_delete"]
               /\ UNCHANGED keys
          ELSE /\ CanWrite(t)
               /\ IF InsertFails(TxView(t), rows)
                  THEN /\ task' = [task EXCEPT ![t] =
                              [@ EXCEPT !.pc = "sync_finally", !.failed = "db",
                                        !.stmts = @ \cup st, !.tx = {}]]
                       /\ UNCHANGED keys
                  ELSE /\ task' = [task EXCEPT ![t] =
                              [@ EXCEPT !.pc = "sync_delete", !.stmts = @ \cup st]]
                       /\ keys' = keys \cup rows
    /\ UNCHANGED <<servers, remote, dirty, nev, dbWriter, prev, conc, chatVars>>

\* if len(insert_values): session.execute(insert(ServerKey).values(insert_values)).
\* A constraint violation raises: the session is closed without commit.
SyncInsert(t) ==
    /\ task[t].pc = "sync_insert"
    /\ LET rows == task[t].insert_values
           st == {<<"insert", r.key_id>> : r \in rows}
       IN IF rows = {}
          THEN /\ task' = [task EXCEPT ![t].pc = "sync_delete"]
               /\ UNCHANGED dbWriter
          ELSE /\ CanWrite(t)
               /\ IF InsertFails(TxView(t), rows)
                  THEN /\ task' = [task EXCEPT ![t] =
                              [@ EXCEPT !.pc = "sync_finally", !.failed = "db",
                                        !.stmts = @ \cup st, !.tx = {}]]
                       /\ dbWriter' = NoTask
                  ELSE /\ task' = [task EXCEPT ![t] =
                              [@ EXCEPT !.pc = "sync_delete", !.stmts = @ \cup st,
                                        !.tx = TxView(t) \cup rows]]
                       /\ dbWriter' = {t}
    /\ UNCHANGED <<servers, keys, remote, dirty, nev, prev, conc, chatVars>>

RECURSIVE DeleteAll(_, _, _)
\* for key in keys_to_delete: session.execute(delete(ServerKey).where(...))
DeleteAll(tbl, ip, ks) ==
    IF ks = {} THEN tbl
    ELSE LET k == CHOOSE x \in ks : TRUE
         IN DeleteAll(DeleteKeyRow(tbl, ip, k.key_id), ip, ks \ {k})

RECURSIVE UpdateAll(_, _, _)
\* for key in keys_to_update: session.execute(update(ServerKey).where(...).values(...))
UpdateAll(tbl, ip, ks) ==
    IF ks = {} THEN tbl
    ELSE LET k == CHOOSE x \in ks : TRUE
         IN UpdateAll(UpdateKeyRow(tbl, ip, k), ip, ks \ {k})

\* The delete loop of the open session.
SyncDelete(t) ==
    /\ task[t].pc = "sync_delete"
    /\ LET ks == task[t].keys_to_delete
       IN IF ks = {}
          THEN /\ task' = [task EXCEPT ![t].pc = "sync_update"]
               /\ UNCHANGED dbWriter
          ELSE /\ CanWrite(t)
               /\ task' = [task EXCEPT ![t] =
                     [@ EXCEPT !.pc = "sync_update",
                               !.stmts = @ \cup {<<"delete", k.key_id>> : k \in ks},
                               !.tx = DeleteAll(TxView(t), task[t].ip, ks)]]
               /\ dbWriter' = {t}
    /\ UNCHANGED <<servers, keys, remote, dirty, nev, prev, conc, chatVars>>

\* The update loop of the open session.
SyncUpdate(t) ==
    /\ task[t].pc = "sync_update"
    /\ LET ks == task[t].keys_to_update
       IN IF ks = {}
          THEN /\ task' = [task EXCEPT ![t].pc = "sync_commit"]
               /\ UNCHANGED dbWriter
          ELSE /\ CanWrite(t)
               /\ task' = [task EXCEPT ![t] =
                     [@ EXCEPT !.pc = "sync_commit",
                               !.stmts = @ \cup {<<"update", k.key_id>> : k \in ks},
                               !.tx = UpdateAll(TxView(t), task[t].ip, ks)]]
               /\ dbWriter' = {t}
    /\ UNCHANGED <<servers, keys, remote, dirty, nev, prev, conc, chatVars>>

\* await session.commit(): the statements of the session become visible together.
SyncCommit(t) ==
    /\ task[t].pc = "sync_commit"
    /\ keys' = TxView(t)
    /\ dbWriter' = IF dbWriter = {t} THEN NoTask ELSE dbWriter
    /\ task' = [task EXCEPT ![t] = [@ EXCEPT !.pc = "sync_finally", !.tx = {}]]
    /\ UNCHANGED <<servers, remote, dirty, nev, prev, conc, chatVars>>

\* finally: return await server_key_list(Session, **kwargs)
SyncFinally(t) ==
    /\ task[t].pc = "sync_finally"
    /\ task' = [task EXCEPT ![t] =
          [@ EXCEPT !.pc = "done", !.ret = RetList(server_key_list(task[t].ip))]]
    /\ UNCHANGED <<servers, keys, remote, dirty, nev, dbWriter, prev, conc, chatVars>>

\* The caller takes the result; the frame is dropped.
Return(t) ==
    /\ task[t].pc = "done"
    /\ prev' = IF task[t].op = "sync"
               THEN [op |-> "sync", ip |-> task[t].ip, ret |-> task[t].ret,
                     ok |-> task[t].remote_ok /\ task[t].failed = ""]
               ELSE NoPrev
    /\ task' = [task EXCEPT ![t] = IdleTask]
    /\ UNCHANGED <<servers, keys, remote, dirty, nev, dbWriter, conc, chatVars>>

\* The remote key map r without key id.
RemovedKey(r, id) == [i \in DOMAIN r \ {id} |-> r[i]]

\* ------------------------------------------------------ server_key_create
\* create_key, the OutlineKey of the 201 response: used_bytes = 0.
CreatedKey(id, k) ==
    OutlineKey(id, k.name, k.password, k.port, k.method, k.access_url, 0)

\* The key after a successful rename: name=kwargs['key_name'], the rest copied.
RenamedKey(k, n) ==
    OutlineKey(k.key_id, n, k.password, k.port, k.method, k.access_url, k.used_bytes)

\* server_key_create up to "if not server: return".
CreateStart(t, ip, key_name) ==
    /\ Ready(t)
    /\ task' = [task EXCEPT ![t] =
          IF server_read(ip) = {}
          THEN [Frame(t, ip, "create") EXCEPT !.pc = "done", !.ret = RetNone,
                   !.key_name = key_name]
          ELSE [Frame(t, ip, "create") EXCEPT !.pc = "create_post", !.key_name = key_name,
                   !.url = (CHOOSE s \in server_read(ip) : TRUE).url]]
    /\ dirty' = FALSE
    /\ prev' = NoPrev
    /\ nev' = nev + 1
    /\ UNCHANGED <<servers, keys, remote, dbWriter, conc, chatVars>>

CreateCall(t, ip, key_name) == nev < MaxEvents /\ CreateStart(t, ip, key_name)

\* Variant of CreatePost: a 201 response whose body cannot be parsed is taken as a
\* key with the default fields, and server_key_create goes on.
CreatePost_Lenient(t) ==
    /\ task[t].pc = "create_post"
    /\ LET url == task[t].url
           rq == task[t].reqs \cup {"POST keys"}
       IN \/ \E id \in KeyIds \ DOMAIN remote[url], parsed \in BOOLEAN :
                /\ remote' = [remote EXCEPT ![url] = (id :> NewKey) @@ @]
                /\ dirty' = TRUE
                /\ task' = [task EXCEPT ![t] =
                      [@ EXCEPT !.pc = IF task[t].key_name # "" THEN "create_rename"
                                       ELSE "create_insert",
                                !.key = {CreatedKey(id, NewKey)}, !.key_id = id,
                                !.remote_ok = parsed,
                                !.failed = IF parsed THEN "" ELSE "create", !.reqs = rq]]
          \/ /\ task' = [task EXCEPT ![t] =
                   [@ EXCEPT !.pc = "done", !.ret = RetRaised, !.failed = "create",
                             !.reqs = rq]]
             /\ UNCHANGED <<remote, dirty>>
    /\ UNCHANGED <<servers, keys, nev, dbWriter, prev, conc, chatVars>>

\* create_key: POST {api_url}/access-keys/. 201 with a JSON body: the remote has
\* made the key and its object is returned. 201 with an unparsable body: the remote
\* has made the key, create_key raises. Anything else: no key, create_key raises.
\* The exception leaves server_key_create.
CreatePost(t) ==
    /\ task[t].pc = "create_post"
    /\ LET url == task[t].url
           rq == task[t].reqs \cup {"POST keys"}
       IN \/ \E id \in KeyIds \ DOMAIN remote[url], parsed \in BOOLEAN :
                /\ remote' = [remote EXCEPT ![url] = (id :> NewKey) @@ @]
                /\ dirty' = TRUE
                /\ task' = [task EXCEPT ![t] =
                      IF parsed
                      THEN [@ EXCEPT !.pc = IF task[t].key_name # "" THEN "create_rename"
                                            ELSE "create_insert",
                                     !.key = {CreatedKey(id, NewKey)}, !.key_id = id,
                                     !.remote_ok = TRUE, !.reqs = rq]
                      ELSE [@ EXCEPT !.pc = "done", !.ret = RetRaised, !.key_id = id,
                                     !.failed = "create", !.reqs = rq]]
          \/ /\ task' = [task EXCEPT ![t] =
                   [@ EXCEPT !.pc = "done", !.ret = RetRaised, !.failed = "create",
                             !.reqs = rq]]
             /\ UNCHANGED <<remote, dirty>>
    /\ UNCHANGED <<servers, keys, nev, dbWriter, prev, conc, chatVars>>

\* rename_key: PUT {api_url}/access-keys/{id}/name. 204: the remote has renamed the
\* key and the OutlineKey takes the name; another status: the key keeps the remote
\* name; a network error raises and leaves server_key_create.
CreateRename(t) ==
    /\ task[t].pc = "create_rename"
    /\ LET url == task[t].url
           id == task[t].key_id
           k == CHOOSE x \in task[t].key : TRUE
           rq == task[t].reqs \cup {"PUT name"}
       IN \/ /\ id \in DOMAIN remote[url]
             /\ remote' = [remote EXCEPT ![url][id].name = task[t].key_name]
             /\ dirty' = TRUE
             /\ task' = [task EXCEPT ![t] =
                   [@ EXCEPT !.pc = "create_insert", !.reqs = rq,
                             !.key = {RenamedKey(k, task[t].key_name)}]]
          \/ /\ \E raised \in BOOLEAN :
                   task' = [task EXCEPT ![t] =
                      IF raised
                      THEN [@ EXCEPT !.pc = "done", !.ret = RetRaised, !.failed = "rename",
                                     !.reqs = rq]
                      ELSE [@ EXCEPT !.pc = "create_insert", !.reqs = rq]]
             /\ UNCHANGED <<remote, dirty>>
    /\ UNCHANGED <<servers, keys, nev, dbWriter, prev, conc, chatVars>>

\* session.execute(insert(ServerKey).values(...)); session.commit(). A constraint
\* violation raises and leaves server_key_create.
CreateInsert(t) ==
    /\ task[t].pc = "create_insert"
    /\ dbWriter = NoTask
    /\ LET row == ServerKey(task[t].ip, CHOOSE x \in task[t].key : TRUE)
           st == task[t].stmts \cup {<<"insert", row.key_id>>}
       IN IF InsertFails(keys, {row})
          THEN /\ task' = [task EXCEPT ![t] =
                     [@ EXCEPT !.pc = "done", !.ret = RetRaised, !.failed = "db",
                               !.stmts = st]]
               /\ UNCHANGED keys
          ELSE /\ task' = [task EXCEPT ![t] = [@ EXCEPT !.pc = "create_read", !.stmts = st]]
               /\ keys' = keys \cup {row}
    /\ UNCHANGED <<servers, remote, dirty, nev, dbWriter, prev, conc, chatVars>>

\* server_key = await server_key_read(...); return server_key
CreateRead(t) ==
    /\ task[t].pc = "create_read"
    /\ task' = [task EXCEPT ![t] =
          [@ EXCEPT !.pc = "done",
                    !.ret = RetRow(server_key_read(task[t].ip, task[t].key_id))]]
    /\ UNCHANGED <<servers, keys, remote, dirty, nev, dbWriter, prev, conc, chatVars>>

\* ------------------------------------------------------ server_key_delete
\* server_key_delete up to "if not server: return False".
DeleteStart(t, ip, key_id) ==
    /\ Ready(t)
    /\ task' = [task EXCEPT ![t] =
          IF server_read(ip) = {}
          THEN [Frame(t, ip, "delete") EXCEPT !.pc = "done", !.ret = RetFalse,
                   !.key_id = key_id]
          ELSE [Frame(t, ip, "delete") EXCEPT !.pc = "delete_remote", !.key_id = key_id,
                   !.url = (CHOOSE s \in server_read(ip) : TRUE).url]]
    /\ dirty' = FALSE
    /\ prev' = NoPrev
    /\ nev' = nev + 1
    /\ UNCHANGED <<servers, keys, remote, dbWriter, conc, chatVars>>

DeleteCall(t, ip, key_id) == nev < MaxEvents /\ DeleteStart(t, ip, key_id)

\* Variant of DeleteRemote: the status of the DELETE response is not looked at.
DeleteRemote_IgnoresStatus(t) ==
    /\ task[t].pc = "delete_remote"
    /\ LET url == task[t].url
           id == task[t].key_id
           rq == task[t].reqs \cup {"DELETE key"}
       IN \/ /\ id \in DOMAIN remote[url]
             /\ remote' = [remote EXCEPT ![url] = RemovedKey(@, id)]
             /\ dirty' = TRUE
             /\ task' = [task EXCEPT ![t] =
                   [@ EXCEPT !.pc = "delete_local", !.remote_ok = TRUE, !.reqs = rq]]
          \/ /\ \E raised \in BOOLEAN :
                   task' = [task EXCEPT ![t] =
                      IF raised
                      THEN [@ EXCEPT !.pc = "done", !.failed = "delete", !.reqs = rq,
                                     !.ret = RetRaised]
                      ELSE [@ EXCEPT !.pc = "delete_local", !.failed = "delete", !.reqs = rq]]
             /\ UNCHANGED <<remote, dirty>>
    /\ UNCHANGED <<servers, keys, nev, dbWriter, prev, conc, chatVars>>

\* delete_key: DELETE {api_url}/access-keys/{id}; True iff the status is 204.
\* "if not await vpn.delete_key(...): return False". A network error raises.
DeleteRemote(t) ==
    /\ task[t].pc = "delete_remote"
    /\ LET url == task[t].url
           id == task[t].key_id
           rq == task[t].reqs \cup {"DELETE key"}
       IN \/ /\ id \in DOMAIN remote[url]
             /\ remote' = [remote EXCEPT ![url] = RemovedKey(@, id)]
             /\ dirty' = TRUE
             /\ task' = [task EXCEPT ![t] =
                   [@ EXCEPT !.pc = "delete_local", !.remote_ok = TRUE, !.reqs = rq]]
          \/ /\ \E raised \in BOOLEAN :
                   task' = [task EXCEPT ![t] =
                      [@ EXCEPT !.pc = "done", !.failed = "delete", !.reqs = rq,
                                !.ret = IF raised THEN RetRaised ELSE RetFalse]]
             /\ UNCHANGED <<remote, dirty>>
    /\ UNCHANGED <<servers, keys, nev, dbWriter, prev, conc, chatVars>>

\* session.execute(delete(ServerKey).where(...)); session.commit();
\* return True if result.rowcount else False
DeleteLocal(t) ==
    /\ task[t].pc = "delete_local"
    /\ dbWriter = NoTask
    /\ keys' = DeleteKeyRow(keys, task[t].ip, task[t].key_id)
    /\ task' = [task EXCEPT ![t] =
          [@ EXCEPT !.pc = "done", !.stmts = @ \cup {<<"delete", task[t].key_id>>},
                    !.ret = IF server_key_read(task[t].ip, task[t].key_id) # {}
                            THEN RetTrue ELSE RetFalse]]
    /\ UNCHANGED <<servers, remote, dirty, nev, dbWriter, prev, conc, chatVars>>

\* ------------------------------------------------------ the remote servers
\* A call observes the remote servers only in its HTTP requests, so an out-of-band
\* change is placed between two calls or right before a request of a running call.
RequestPcs == {"sync_get_keys", "sync_get_metrics", "create_post", "create_rename",
               "delete_remote"}
Observable ==
    \/ \A t \in Tasks : Idle(t)
    \/ \E t \in Tasks : task[t].pc \in RequestPcs

\* Out-of-band: a key is created, renamed, re-issued or its traffic counted.
RemoteSet(url, id, v) ==
    /\ nev < MaxEvents
    /\ url \in ManagedUrls
    /\ Observable
    /\ IF id \in DOMAIN remote[url] THEN remote[url][id] # v ELSE TRUE
    /\ remote' = [remote EXCEPT ![url] = (id :> v) @@ @]
    /\ dirty' = TRUE
    /\ nev' = nev + 1
    /\ UNCHANGED <<servers, keys, dbWriter, task, prev, conc, chatVars>>

\* Out-of-band: a key is deleted in the Outline manager.
RemoteDrop(url, id) ==
    /\ nev < MaxEvents
    /\ url \in ManagedUrls
    /\ Observable
    /\ id \in DOMAIN remote[url]
    /\ remote' = [remote EXCEPT ![url] = RemovedKey(@, id)]
    /\ dirty' = TRUE
    /\ nev' = nev + 1
    /\ UNCHANGED <<servers, keys, dbWriter, task, prev, conc, chatVars>>

\* ------------------------------------------------------------ conversations
\* One action is one update handled from its receipt to the end of its handler.
\* The requests of a handler to the Bot API (answer, edit_text, ChatActions) are
\* taken to succeed, except in update_server_name, whose own try/except covers
\* them: there both outcomes are modelled.
\* Number of updates (messages and button presses) handled in one behaviour: of
\* one scope alone, and of several scopes together.
MaxTurns == 5
MaxSharedTurns == 3

\* A scope is <<chat id, user id>>: two users of chat 1, and user 1 in chat 2.
Scopes == {<<1, 1>>, <<1, 2>>, <<2, 1>>}

\* Variant of StorageKey: the storage is addressed by the chat alone.
StorageKey_ByChat(chat, user) == <<chat, chat>>

\* The address under which the FSM storage keeps the state and data of an update:
\* dp.current_state(chat=chat.id, user=from_user.id).
StorageKey(chat, user) == <<chat, user>>
KeyOf(sc) == StorageKey(sc[1], sc[2])
StorageKeys == {KeyOf(sc) : sc \in Scopes}

\* class ManageServer(StatesGroup); "idle" is the state None.
WorkflowStates ==
    {"enter_name", "update_name", "enter_ip", "update_ip", "enter_url", "update_url",
     "enter_key_name", "update_key_name"}

\* The data bag is a function from the names of the stored fields to their values.
NoData == <<>>
IdleEntry == [state |-> "idle", data |-> NoData]

\* The message texts sent here: a name with a leading blank, an address that no
\* server has at start, the addresses of servers 1 and 2, a management url, and
\* the commands.
Texts ==
    {" n", "10.0.0.3", "10.0.0.1", "10.0.0.2", "https://s3", "/newserver", "/myservers",
     "/start"}

\* message.text.strip()
Strip(txt) == IF txt = " n" THEN "n" ELSE txt

\* ipaddress.ip_address(text) as the integer IPAddressType binds; 0 stands for
\* ValueError. str() of the address and ip_address() of that give the address back.
ip_address(txt) ==
    IF txt = "10.0.0.1" THEN 1 ELSE IF txt = "10.0.0.2" THEN 2
    ELSE IF txt = "10.0.0.3" THEN 3 ELSE 0

\* commands="newserver": the text is the command.
IsCommand(txt, cmd) == txt = cmd

\* Action values of the inline keyboards that the handlers below take.
EditActions == {"SERVER_EDIT_NAME", "SERVER_EDIT_IP", "SERVER_EDIT_URL", "SERVER_EDIT_STATE"}
KeyEditActions == {"KEY_SEND", "KEY_EDIT_NAME"}
\* The addresses carried by the buttons pressed here: server 1, and the address
\* a new server is given.
ButtonIps == {1, 3}

TextUpdate(txt) == [ip |-> 0, key_id |-> 0, kind |-> "text", text |-> txt, action |-> ""]
ButtonUpdate(a, ip, id) == [ip |-> ip, key_id |-> id, kind |-> "button", text |-> "", action |-> a]

\* Variant of Route: the handler of /newserver is registered after the handlers of
\* the workflow states.
Route_NewServerLast(st, u) ==
    IF u.kind = "text"
    THEN IF IsCommand(u.text, "/start") THEN "user_start"
         ELSE IF st = "enter_name" THEN "enter_server_name"
         ELSE IF st = "update_name" THEN "update_server_name"
         ELSE IF st = "enter_ip" THEN "enter_server_ip"
         ELSE IF st = "update_ip" THEN "update_server_ip"
         ELSE IF st = "enter_url" THEN "enter_server_url"
         ELSE IF st = "update_url" THEN "update_server_url"
         ELSE IF IsCommand(u.text, "/myservers") THEN "myservers"
         ELSE IF st = "enter_key_name" THEN "enter_key_name"
         ELSE IF st = "update_key_name" THEN "update_key_name"
         ELSE IF IsCommand(u.text, "/newserver") THEN "new_server"
         ELSE "echo"
    ELSE IF u.action = "SERVER_SHOW_LIST" THEN "myservers_call"
         ELSE IF u.action = "SERVER_CHOOSE_ACTION" THEN "server_actions"
         ELSE IF u.action = "KEY_CHOOSE_ACTION" THEN "key_actions"
         ELSE IF st # "idle" THEN "none"
         ELSE IF u.action = "SERVER_EDIT" THEN "edit_server"
         ELSE IF u.action = "SERVER_CONFIRM_DELETE" THEN "delete_server_confirm"
         ELSE IF u.action = "SERVER_DELETE" THEN "delete_server"
         ELSE IF u.action \in EditActions THEN "edit_server_params"
         ELSE IF u.action = "SERVER_SHOW_KEYS" THEN "show_keys"
         ELSE IF u.action = "KEY_NEW" THEN "new_key"
         ELSE IF u.action \in KeyEditActions THEN "edit_key_params"
         ELSE IF u.action = "KEY_CONFIRM_DELETE" THEN "delete_key_confirm"
         ELSE IF u.action = "KEY_DELETE" THEN "delete_key"
         ELSE "none"

\* Variant of Route: the handlers of /start are registered after the handlers of
\* register_manage_server.
Route_StartLast(st, u) ==
    IF u.kind = "text"
    THEN IF IsCommand(u.text, "/newserver") THEN "new_server"
         ELSE IF st = "enter_name" THEN "enter_server_name"
         ELSE IF st = "update_name" THEN "update_server_name"
         ELSE IF st = "enter_ip" THEN "enter_server_ip"
         ELSE IF st = "update_ip" THEN "update_server_ip"
         ELSE IF st = "enter_url" THEN "enter_server_url"
         ELSE IF st = "update_url" THEN "update_server_url"
         ELSE IF IsCommand(u.text, "/myservers") THEN "myservers"
         ELSE IF st = "enter_key_name" THEN "enter_key_name"
         ELSE IF st = "update_key_name" THEN "update_key_name"
         ELSE IF IsCommand(u.text, "/start") THEN "user_start"
         ELSE "echo"
    ELSE IF u.action = "SERVER_SHOW_LIST" THEN "myservers_call"
         ELSE IF u.action = "SERVER_CHOOSE_ACTION" THEN "server_actions"
         ELSE IF u.action = "KEY_CHOOSE_ACTION" THEN "key_actions"
         ELSE IF st # "idle" THEN "none"
         ELSE IF u.action = "SERVER_EDIT" THEN "edit_server"
         ELSE IF u.action = "SERVER_CONFIRM_DELETE" THEN "delete_server_confirm"
         ELSE IF u.action = "SERVER_DELETE" THEN "delete_server"
         ELSE IF u.action \in EditActions THEN "edit_server_params"
         ELSE IF u.action = "SERVER_SHOW_KEYS" THEN "show_keys"
         ELSE IF u.action = "KEY_NEW" THEN "new_key"
         ELSE IF u.action \in KeyEditActions THEN "edit_key_params"
         ELSE IF u.action = "KEY_CONFIRM_DELETE" THEN "delete_key_confirm"
         ELSE IF u.action = "KEY_DELETE" THEN "delete_key"
         ELSE "none"

\* Variant of Route: every callback handler is registered with state='*'.
Route_ButtonsAnyState(st, u) ==
    IF u.kind = "text"
    THEN IF IsCommand(u.text, "/start") THEN "user_start"
         ELSE IF IsCommand(u.text, "/newserver") THEN "new_server"
         ELSE IF st = "enter_name" THEN "enter_server_name"
         ELSE IF st = "update_name" THEN "update_server_name"
         ELSE IF st = "enter_ip" THEN "enter_server_ip"
         ELSE IF st = "update_ip" THEN "update_server_ip"
         ELSE IF st = "enter_url" THEN "enter_server_url"
         ELSE IF st = "update_url" THEN "update_server_url"
         ELSE IF IsCommand(u.text, "/myservers") THEN "myservers"
         ELSE IF st = "enter_key_name" THEN "enter_key_name"
         ELSE IF st = "update_key_name" THEN "update_key_name"
         ELSE "echo"
    ELSE IF u.action = "SERVER_SHOW_LIST" THEN "myservers_call"
         ELSE IF u.action = "SERVER_CHOOSE_ACTION" THEN "server_actions"
         ELSE IF u.action = "KEY_CHOOSE_ACTION" THEN "key_actions"
         ELSE IF u.action = "SERVER_EDIT" THEN "edit_server"
         ELSE IF u.action = "SERVER_CONFIRM_DELETE" THEN "delete_server_confirm"
         ELSE IF u.action = "SERVER_DELETE" THEN "delete_server"
         ELSE IF u.action \in EditActions THEN "edit_server_params"
         ELSE IF u.action = "SERVER_SHOW_KEYS" THEN "show_keys"
         ELSE IF u.action = "KEY_NEW" THEN "new_key"
         ELSE IF u.action \in KeyEditActions THEN "edit_key_params"
         ELSE IF u.action = "KEY_CONFIRM_DELETE" THEN "delete_key_confirm"
         ELSE IF u.action = "KEY_DELETE" THEN "delete_key"
         ELSE "none"

\* The handler an update is given to: the first one, in the order of
\* register_all_handlers, whose filters pass. A handler registered without state
\* takes updates of idle scopes only; state='*' takes any.
Route(st, u) ==
    IF u.kind = "text"
    THEN IF IsCommand(u.text, "/start") THEN "user_start"
         ELSE IF IsCommand(u.text, "/newserver") THEN "new_server"
         ELSE IF st = "enter_name" THEN "enter_server_name"
         ELSE IF st = "update_name" THEN "update_server_name"
         ELSE IF st = "enter_ip" THEN "enter_server_ip"
         ELSE IF st = "update_ip" THEN "update_server_ip"
         ELSE IF st = "enter_url" THEN "enter_server_url"
         ELSE IF st = "update_url" THEN "update_server_url"
         ELSE IF IsCommand(u.text, "/myservers") THEN "myservers"
         ELSE IF st = "enter_key_name" THEN "enter_key_name"
         ELSE IF st = "update_key_name" THEN "update_key_name"
         ELSE "echo"
    ELSE IF u.action = "SERVER_SHOW_LIST" THEN "myservers_call"
         ELSE IF u.action = "SERVER_CHOOSE_ACTION" THEN "server_actions"
         ELSE IF u.action = "KEY_CHOOSE_ACTION" THEN "key_actions"
         ELSE IF st # "idle" THEN "none"
         ELSE IF u.action = "SERVER_EDIT" THEN "edit_server"
         ELSE IF u.action = "SERVER_CONFIRM_DELETE" THEN "delete_server_confirm"
         ELSE IF u.action = "SERVER_DELETE" THEN "delete_server"
         ELSE IF u.action \in EditActions THEN "edit_server_params"
         ELSE IF u.action = "SERVER_SHOW_KEYS" THEN "show_keys"
         ELSE IF u.action = "KEY_NEW" THEN "new_key"
         ELSE IF u.action \in KeyEditActions THEN "edit_key_params"
         ELSE IF u.action = "KEY_CONFIRM_DELETE" THEN "delete_key_confirm"
         ELSE IF u.action = "KEY_DELETE" THEN "delete_key"
         ELSE "none"

\* What is recorded of the update handled last. Observation only: sc the sender,
\* handler, the update, pre the entry of the sender's storage key before the
\* turn, preServers and preKeys the tables before it, raised (an exception left
\* the handler), sent (the kinds of message sent), remote_ok (the remote request of
\* the turn succeeded), invite (the invites sent: the access url and the user whose
\* chat it went to).
NoTurn ==
    [remote_ok |-> FALSE, preKeys |-> {}, preServers |-> {}, raised |-> FALSE,
     sc |-> <<0, 0>>, handler |-> "none", update |-> TextUpdate(""), pre |-> IdleEntry,
     sent |-> {}, invite |-> {}]

\* The record of a turn of scope sc: update u given to handler h.
TurnOf(sc, h, u) ==
    [NoTurn EXCEPT !.sc = sc, !.handler = h, !.update = u, !.pre = fsm[KeyOf(sc)],
                   !.preServers = servers, !.preKeys = keys]

\* Update u of scope sc is given to handler h now.
Handles(sc, h, u) ==
    /\ nturns < (IF Cardinality(active) > 1 THEN MaxSharedTurns ELSE MaxTurns)
    /\ sc \in active
    /\ Route(fsm[KeyOf(sc)].state, u) = h

\* state.finish(): state None and the data dropped.
Finished(k) == [fsm EXCEPT ![k] = IdleEntry]
\* <State>.set()
StateSet(f, k, st) == [f EXCEPT ![k].state = st]
\* async with state.proxy() as data: data[field] = v
DataSet(f, k, field, v) == [f EXCEPT ![k].data = (field :> v) @@ @]

\* The texts of a /newserver conversation so far; anything else ends it.
FlowAfter(sc, h, txt) ==
    [flow EXCEPT ![sc] =
        IF h = "new_server" THEN <<txt>>
        ELSE IF h \in {"enter_server_name", "enter_server_ip", "enter_server_url"} /\ @ # <<>>
             THEN Append(@, txt)
        ELSE <<>>]

\* What every turn does besides its handler: the record of the turn, the texts of
\* the /newserver conversation, the count; the calls in progress are none.
TurnedInvite(sc, h, u, raised, sent, remote_ok, invite) ==
    /\ turn' = [TurnOf(sc, h, u) EXCEPT !.raised = raised, !.sent = sent,
                                        !.remote_ok = remote_ok, !.invite = invite]
    /\ flow' = FlowAfter(sc, h, u.text)
    /\ nturns' = nturns + 1
    /\ UNCHANGED <<callVars, active, trackVars, log>>

\* A turn that sends no invite.
Turned(sc, h, u, raised, sent, remote_ok) ==
    TurnedInvite(sc, h, u, raised, sent, remote_ok, {})

\* Variant of Invite: the invite is an answer in the chat of the message.
Invite_ToChat(access_url, sc) == [access_url |-> access_url, user |-> sc[1]]

\* bot.send_message(chat_id=from_user.id, text=INVITE_MESSAGE.format(.., access_url)):
\* the invite goes to the private chat of the user of scope sc.
Invite(access_url, sc) == [access_url |-> access_url, user |-> sc[2]]

\* new_server: state.finish(), the prompt, ManageServer.enter_name.set().
new_server(sc, u) ==
    /\ Handles(sc, "new_server", u)
    /\ fsm' = StateSet(Finished(KeyOf(sc)), KeyOf(sc), "enter_name")
    /\ Turned(sc, "new_server", u, FALSE, {"prompt"}, FALSE)
    /\ UNCHANGED <<servers, keys, remote>>

\* Variant of enter_server_name: the text is stored as it was received.
enter_server_name_Raw(sc, u) ==
    /\ Handles(sc, "enter_server_name", u)
    /\ fsm' = StateSet(DataSet(fsm, KeyOf(sc), "server_name", u.text),
                       KeyOf(sc), "enter_ip")
    /\ Turned(sc, "enter_server_name", u, FALSE, {"prompt"}, FALSE)
    /\ UNCHANGED <<servers, keys, remote>>

\* Variant of enter_server_ip: a text that is no address restarts the workflow
\* (state.finish() before the state is set).
enter_server_ip_Restart(sc, u) ==
    /\ Handles(sc, "enter_server_ip", u)
    /\ LET k == KeyOf(sc)
           ip == ip_address(u.text)
       IN IF ip = 0
          THEN /\ fsm' = StateSet(Finished(k), k, "enter_ip")
               /\ Turned(sc, "enter_server_ip", u, FALSE, {"wrong address"}, FALSE)
          ELSE /\ fsm' = StateSet(DataSet(fsm, k, "server_ip", ip), k, "enter_url")
               /\ Turned(sc, "enter_server_ip", u, FALSE, {"prompt"}, FALSE)
    /\ UNCHANGED <<servers, keys, remote>>

\* Variant of enter_server_url: the row of an address that is stored already is
\* replaced (INSERT OR REPLACE).
enter_server_url_Upsert(sc, u) ==
    /\ Handles(sc, "enter_server_url", u)
    /\ LET k == KeyOf(sc)
           row == [ip |-> fsm[k].data["server_ip"], url |-> u.text,
                   name |-> fsm[k].data["server_name"], is_active |-> TRUE]
       IN IF server_read(row.ip) # {}
          THEN /\ servers' = (servers \ server_read(row.ip)) \cup {row}
               /\ Turned(sc, "enter_server_url", u, FALSE, {"something went wrong"}, FALSE)
          ELSE /\ servers' = servers \cup {row}
               /\ Turned(sc, "enter_server_url", u, FALSE, {"detail"}, FALSE)
    /\ fsm' = Finished(KeyOf(sc))
    /\ UNCHANGED <<keys, remote>>

\* enter_server_name: data['server_name'] = message.text.strip(), enter_ip.set().
enter_server_name(sc, u) ==
    /\ Handles(sc, "enter_server_name", u)
    /\ fsm' = StateSet(DataSet(fsm, KeyOf(sc), "server_name", Strip(u.text)),
                       KeyOf(sc), "enter_ip")
    /\ Turned(sc, "enter_server_name", u, FALSE, {"prompt"}, FALSE)
    /\ UNCHANGED <<servers, keys, remote>>

\* Variant of ServerUpdateActive: the server is deactivated whatever the flag was.
ServerUpdateActive_Deactivate(tbl, ip, v) ==
    {IF sv.ip = ip THEN [sv EXCEPT !.is_active = FALSE] ELSE sv : sv \in tbl}

\* update(OutlineServer).where(OutlineServer.ip == primary_key_ip).values(name=name)
ServerUpdateName(tbl, ip, name) ==
    {IF sv.ip = ip THEN [sv EXCEPT !.name = name] ELSE sv : sv \in tbl}

\* update(OutlineServer).where(OutlineServer.ip == primary_key_ip).values(is_active=v)
ServerUpdateActive(tbl, ip, v) ==
    {IF sv.ip = ip THEN [sv EXCEPT !.is_active = v] ELSE sv : sv \in tbl}

\* update_server_name: server_update(primary_key_ip, name), then the keyboard of
\* the server read back (AttributeError when there is no such server: the
\* exception leaves the handler), the detail message and the deletion of the
\* prompt inside try/except, state.finish().
update_server_name(sc, u) ==
    /\ Handles(sc, "update_server_name", u)
    /\ LET k == KeyOf(sc)
           ip == fsm[k].data["server_ip"]
       IN /\ servers' = ServerUpdateName(servers, ip, Strip(u.text))
          /\ IF server_read(ip) = {}
             THEN /\ fsm' = fsm
                  /\ Turned(sc, "update_server_name", u, TRUE, {}, FALSE)
             ELSE /\ fsm' = Finished(k)
                  /\ \E delivered \in BOOLEAN :
                        Turned(sc, "update_server_name", u, FALSE,
                               IF delivered THEN {"detail"} ELSE {}, FALSE)
    /\ UNCHANGED <<keys, remote>>

\* enter_server_ip: ValueError of ip_address re-prompts and sets enter_ip again;
\* else data['server_ip'] = str(server_ip), enter_url.set().
enter_server_ip(sc, u) ==
    /\ Handles(sc, "enter_server_ip", u)
    /\ LET k == KeyOf(sc)
           ip == ip_address(u.text)
       IN IF ip = 0
          THEN /\ fsm' = StateSet(fsm, k, "enter_ip")
               /\ Turned(sc, "enter_server_ip", u, FALSE, {"wrong address"}, FALSE)
          ELSE /\ fsm' = StateSet(DataSet(fsm, k, "server_ip", ip), k, "enter_url")
               /\ Turned(sc, "enter_server_ip", u, FALSE, {"prompt"}, FALSE)
    /\ UNCHANGED <<servers, keys, remote>>

\* enter_server_url: server_create(ip, url=message.text, name); the IntegrityError
\* of an address that is stored already is caught by "except Exception": the
\* failure message, state.finish(). Else the detail message, state.finish().
enter_server_url(sc, u) ==
    /\ Handles(sc, "enter_server_url", u)
    /\ LET k == KeyOf(sc)
           row == [ip |-> fsm[k].data["server_ip"], url |-> u.text,
                   name |-> fsm[k].data["server_name"], is_active |-> TRUE]
       IN IF server_read(row.ip) # {}
          THEN /\ servers' = servers
               /\ Turned(sc, "enter_server_url", u, FALSE, {"something went wrong"}, FALSE)
          ELSE /\ servers' = servers \cup {row}
               /\ Turned(sc, "enter_server_url", u, FALSE, {"detail"}, FALSE)
    /\ fsm' = Finished(KeyOf(sc))
    /\ UNCHANGED <<keys, remote>>

\* myservers: state.finish() and the list of servers.
myservers(sc, u) ==
    /\ Handles(sc, "myservers", u)
    /\ fsm' = Finished(KeyOf(sc))
    /\ Turned(sc, "myservers", u, FALSE, {"list"}, FALSE)
    /\ UNCHANGED <<servers, keys, remote>>

\* admin_start and user_start, commands=["start"], state="*": state.finish() and
\* the greeting. admin_start is registered first and takes the command when its
\* is_admin filter passes, user_start otherwise; either may be the one.
admin_start(sc, u) ==
    /\ Handles(sc, "user_start", u)
    /\ fsm' = Finished(KeyOf(sc))
    /\ Turned(sc, "admin_start", u, FALSE, {"Hello, admin!"}, FALSE)
    /\ UNCHANGED <<servers, keys, remote>>

user_start(sc, u) ==
    /\ Handles(sc, "user_start", u)
    /\ fsm' = Finished(KeyOf(sc))
    /\ Turned(sc, "user_start", u, FALSE, {"Hello, user!"}, FALSE)
    /\ UNCHANGED <<servers, keys, remote>>

\* myservers_call (state='*'): state.finish() and the list of servers.
myservers_call(sc, u) ==
    /\ Handles(sc, "myservers_call", u)
    /\ fsm' = Finished(KeyOf(sc))
    /\ Turned(sc, "myservers_call", u, FALSE, {"list"}, FALSE)
    /\ UNCHANGED <<servers, keys, remote>>

\* server_actions (state='*'): the menu of the server; "server.ip" of a server
\* that is not stored raises. The handler takes no state.
server_actions(sc, u) ==
    /\ Handles(sc, "server_actions", u)
    /\ fsm' = fsm
    /\ IF server_read(u.ip) = {}
       THEN Turned(sc, "server_actions", u, TRUE, {}, FALSE)
       ELSE Turned(sc, "server_actions", u, FALSE, {"menu"}, FALSE)
    /\ UNCHANGED <<servers, keys, remote>>

\* key_actions (state='*'): the menu of the key; "server_key.used_bytes" of a
\* key that is not stored raises. The handler takes no state.
key_actions(sc, u) ==
    /\ Handles(sc, "key_actions", u)
    /\ fsm' = fsm
    /\ IF server_key_read(u.ip, u.key_id) = {}
       THEN Turned(sc, "key_actions", u, TRUE, {}, FALSE)
       ELSE Turned(sc, "key_actions", u, FALSE, {"menu"}, FALSE)
    /\ UNCHANGED <<servers, keys, remote>>

\* The actions of the buttons whose handlers are registered without state.
IdleOnlyActions ==
    {"SERVER_EDIT", "SERVER_CONFIRM_DELETE", "SERVER_DELETE", "SERVER_SHOW_KEYS",
     "KEY_NEW", "KEY_CONFIRM_DELETE", "KEY_DELETE"} \cup EditActions \cup KeyEditActions

\* An update that no registered handler takes: the dispatcher drops it.
unhandled(sc, u) ==
    /\ Handles(sc, "none", u)
    /\ fsm' = fsm
    /\ Turned(sc, "none", u, FALSE, {}, FALSE)
    /\ UNCHANGED <<servers, keys, remote>>

\* The state an edit action of the server menu enters.
EditState(a) ==
    IF a = "SERVER_EDIT_NAME" THEN "update_name"
    ELSE IF a = "SERVER_EDIT_IP" THEN "update_ip"
    ELSE IF a = "SERVER_EDIT_URL" THEN "update_url" ELSE "idle"

\* edit_server_params: the server is read (AttributeError when there is none), its
\* name, ip and url and the ids of the menu message go into the data; then the
\* state of the action is set, or for SERVER_EDIT_STATE the active flag is flipped.
edit_server_params(sc, u) ==
    /\ Handles(sc, "edit_server_params", u)
    /\ LET k == KeyOf(sc)
       IN IF server_read(u.ip) = {}
          THEN /\ fsm' = fsm
               /\ servers' = servers
               /\ Turned(sc, "edit_server_params", u, TRUE, {}, FALSE)
          ELSE LET server == CHOOSE sv \in server_read(u.ip) : TRUE
                   d == ("server_name" :> server.name) @@ ("server_ip" :> server.ip) @@
                        ("server_url" :> server.url) @@ ("message_id" :> 1) @@
                        ("chat_id" :> sc[1]) @@ fsm[k].data
               IN /\ fsm' = [fsm EXCEPT ![k] = [state |-> EditState(u.action), data |-> d]]
                  /\ servers' = IF u.action = "SERVER_EDIT_STATE"
                                THEN ServerUpdateActive(servers, server.ip, ~server.is_active)
                                ELSE servers
                  /\ Turned(sc, "edit_server_params", u, FALSE,
                            IF u.action = "SERVER_EDIT_STATE" THEN {"detail"} ELSE {"prompt"},
                            FALSE)
    /\ UNCHANGED <<keys, remote>>

\* new_key: the prompt, enter_key_name.set(), then server_ip and the ids of the
\* menu message go into the data.
new_key(sc, u) ==
    /\ Handles(sc, "new_key", u)
    /\ LET k == KeyOf(sc)
           d == ("server_ip" :> u.ip) @@ ("message_id" :> 1) @@ ("chat_id" :> sc[1]) @@
                fsm[k].data
       IN fsm' = [fsm EXCEPT ![k] = [state |-> "enter_key_name", data |-> d]]
    /\ Turned(sc, "new_key", u, FALSE, {"prompt"}, FALSE)
    /\ UNCHANGED <<servers, keys, remote>>

\* server_key_update: update(ServerKey).where(server_ip == ip, key_id == id).values(name=n)
server_key_update(tbl, ip, id, n) ==
    {IF r.server_ip = ip /\ r.key_id = id THEN [r EXCEPT !.name = n] ELSE r : r \in tbl}

\* The answers of a remote server to PUT /access-keys/{id}/name: 204 (only a server
\* that has the key gives it), another status, or no answer (aiohttp raises).
RenameAnswers(url, id) ==
    {"other", "raised"} \cup
    (IF url \in DOMAIN remote THEN IF id \in DOMAIN remote[url] THEN {"204"} ELSE {} ELSE {})

\* Variant of update_key_name: no try/except; an exception (no server, no answer
\* of the remote server) leaves the handler before state.finish().
update_key_name_Uncaught(sc, u) ==
    /\ Handles(sc, "update_key_name", u)
    /\ LET k == KeyOf(sc)
           ip == fsm[k].data["server_ip"]
           id == fsm[k].data["key_id"]
           key_name == Strip(u.text)
       IN IF server_read(ip) = {}
          THEN /\ UNCHANGED <<keys, remote, fsm>>
               /\ Turned(sc, "update_key_name", u, TRUE, {}, FALSE)
          ELSE LET url == (CHOOSE sv \in server_read(ip) : TRUE).url
               IN \E answer \in RenameAnswers(url, id) :
                     IF answer = "204"
                     THEN /\ remote' = [remote EXCEPT ![url][id].name = key_name]
                          /\ keys' = server_key_update(keys, ip, id, key_name)
                          /\ fsm' = Finished(k)
                          /\ Turned(sc, "update_key_name", u, FALSE,
                                    IF server_key_read(ip, id) # {} THEN {"key menu"} ELSE {},
                                    TRUE)
                     ELSE /\ UNCHANGED <<keys, remote>>
                          /\ fsm' = IF answer = "raised" THEN fsm ELSE Finished(k)
                          /\ Turned(sc, "update_key_name", u, answer = "raised", {}, FALSE)
    /\ UNCHANGED servers

\* Variant of update_key_name: server_key_update is called whatever rename_key
\* returned.
update_key_name_Unconditional(sc, u) ==
    /\ Handles(sc, "update_key_name", u)
    /\ LET k == KeyOf(sc)
           ip == fsm[k].data["server_ip"]
           id == fsm[k].data["key_id"]
           key_name == Strip(u.text)
       IN IF server_read(ip) = {}
          THEN /\ UNCHANGED <<keys, remote>>
               /\ Turned(sc, "update_key_name", u, FALSE, {}, FALSE)
          ELSE LET url == (CHOOSE sv \in server_read(ip) : TRUE).url
               IN \E answer \in RenameAnswers(url, id) :
                     /\ keys' = server_key_update(keys, ip, id, key_name)
                     /\ IF answer = "204"
                        THEN /\ remote' = [remote EXCEPT ![url][id].name = key_name]
                             /\ Turned(sc, "update_key_name", u, FALSE, {"key menu"}, TRUE)
                        ELSE /\ UNCHANGED remote
                             /\ Turned(sc, "update_key_name", u, FALSE, {}, FALSE)
    /\ fsm' = Finished(KeyOf(sc))
    /\ UNCHANGED servers

\* update_key_name: inside try, the server is read (AttributeError when there is
\* none), vpn.rename_key is called and only "if result" server_key_update changes
\* the row and the key menu is sent (AttributeError when there is no such row);
\* every exception is caught; state.finish().
update_key_name(sc, u) ==
    /\ Handles(sc, "update_key_name", u)
    /\ LET k == KeyOf(sc)
           ip == fsm[k].data["server_ip"]
           id == fsm[k].data["key_id"]
           key_name == Strip(u.text)
       IN IF server_read(ip) = {}
          THEN /\ UNCHANGED <<keys, remote>>
               /\ Turned(sc, "update_key_name", u, FALSE, {}, FALSE)
          ELSE LET url == (CHOOSE sv \in server_read(ip) : TRUE).url
               IN \E answer \in RenameAnswers(url, id) :
                     IF answer = "204"
                     THEN /\ remote' = [remote EXCEPT ![url][id].name = key_name]
                          /\ keys' = server_key_update(keys, ip, id, key_name)
                          /\ Turned(sc, "update_key_name", u, FALSE,
                                    IF server_key_read(ip, id) # {} THEN {"key menu"} ELSE {},
                                    TRUE)
                     ELSE /\ UNCHANGED <<keys, remote>>
                          /\ Turned(sc, "update_key_name", u, FALSE, {}, FALSE)
    /\ fsm' = Finished(KeyOf(sc))
    /\ UNCHANGED servers

\* edit_key_params: server_ip and key_id go into the data; KEY_SEND sends the
\* invite of a stored key; KEY_EDIT_NAME prompts (AttributeError when there is no
\* such row) and sets update_key_name.
edit_key_params(sc, u) ==
    /\ Handles(sc, "edit_key_params", u)
    /\ LET k == KeyOf(sc)
           d == ("server_ip" :> u.ip) @@ ("key_id" :> u.key_id) @@ fsm[k].data
           stored == server_key_read(u.ip, u.key_id) # {}
       IN IF u.action = "KEY_SEND"
          THEN /\ fsm' = [fsm EXCEPT ![k].data = d]
               /\ TurnedInvite(sc, "edit_key_params", u, FALSE,
                               IF stored THEN {"invite"} ELSE {}, FALSE,
                               {Invite(r.access_url, sc) :
                                   r \in server_key_read(u.ip, u.key_id)})
          ELSE IF stored
               THEN /\ fsm' = [fsm EXCEPT ![k] = [state |-> "update_key_name", data |-> d]]
                    /\ Turned(sc, "edit_key_params", u, FALSE, {"prompt"}, FALSE)
               ELSE /\ fsm' = [fsm EXCEPT ![k].data = d]
                    /\ Turned(sc, "edit_key_params", u, TRUE, {}, FALSE)
    /\ UNCHANGED <<servers, keys, remote>>

\* delete_server: server_delete(ip) is delete(OutlineServer).where(ip == ip); with
\* rows of server_key under that address the foreign key (RESTRICT) refuses it and
\* the IntegrityError leaves the handler. Then the list of servers.
delete_server(sc, u) ==
    /\ Handles(sc, "delete_server", u)
    /\ IF server_key_list(u.ip) # {}
       THEN /\ servers' = servers
            /\ Turned(sc, "delete_server", u, TRUE, {}, FALSE)
       ELSE /\ servers' = {sv \in servers : sv.ip # u.ip}
            /\ Turned(sc, "delete_server", u, FALSE, {"list"}, FALSE)
    /\ UNCHANGED <<fsm, keys, remote>>

\* update(OutlineServer).where(ip == old).values(ip=new)
ServerUpdateIp(tbl, old, new) ==
    {IF sv.ip = old THEN [sv EXCEPT !.ip = new] ELSE sv : sv \in tbl}

\* Variant of KeysCascade: the rows of server_key keep the address they had.
KeysCascade_Stays(tbl, old, new) == tbl

\* ForeignKey("outline_server.ip", onupdate="CASCADE"): the rows of server_key
\* follow the address of their server.
KeysCascade(tbl, old, new) ==
    {IF r.server_ip = old THEN [r EXCEPT !.server_ip = new] ELSE r : r \in tbl}

\* update(OutlineServer).where(ip == ip).values(url=url)
ServerUpdateUrl(tbl, ip, url) ==
    {IF sv.ip = ip THEN [sv EXCEPT !.url = url] ELSE sv : sv \in tbl}

\* update_server_ip: ValueError of ip_address re-prompts and sets update_ip again.
\* Else the data takes the new address (the proxy is left before server_update),
\* and server_update(primary_key_ip=old, ip=new) runs outside any try: the
\* IntegrityError of an address another server has, and the AttributeError of
\* "server.ip" when no server is read back under the new address, leave the
\* handler before state.finish(). Else the detail message and state.finish().
update_server_ip(sc, u) ==
    /\ Handles(sc, "update_server_ip", u)
    /\ LET k == KeyOf(sc)
           new == ip_address(u.text)
           old == fsm[k].data["server_ip"]
           stored == DataSet(fsm, k, "server_ip", new)
       IN IF new = 0
          THEN /\ fsm' = StateSet(fsm, k, "update_ip")
               /\ UNCHANGED <<servers, keys>>
               /\ Turned(sc, "update_server_ip", u, FALSE, {"wrong address"}, FALSE)
          ELSE IF server_read(old) # {} /\ new # old /\ server_read(new) # {}
          THEN /\ fsm' = stored
               /\ UNCHANGED <<servers, keys>>
               /\ Turned(sc, "update_server_ip", u, TRUE, {}, FALSE)
          ELSE IF server_read(old) = {} /\ server_read(new) = {}
          THEN /\ fsm' = stored
               /\ UNCHANGED <<servers, keys>>
               /\ Turned(sc, "update_server_ip", u, TRUE, {}, FALSE)
          ELSE /\ fsm' = Finished(k)
               /\ servers' = ServerUpdateIp(servers, old, new)
               /\ keys' = IF server_read(old) # {} THEN KeysCascade(keys, old, new) ELSE keys
               /\ Turned(sc, "update_server_ip", u, FALSE, {"detail"}, FALSE)
    /\ UNCHANGED remote

\* update_server_url: inside try and inside the proxy, server_update(url=text);
\* the AttributeError of "server.ip" when there is no such server is caught by
\* "except Exception": the failure message, state.finish(). Else the detail
\* message, state.finish(). The text is not looked at: nothing raises ValueError.
update_server_url(sc, u) ==
    /\ Handles(sc, "update_server_url", u)
    /\ LET ip == fsm[KeyOf(sc)].data["server_ip"]
       IN /\ servers' = ServerUpdateUrl(servers, ip, u.text)
          /\ Turned(sc, "update_server_url", u, FALSE,
                    IF server_read(ip) = {} THEN {"something went wrong"} ELSE {"detail"},
                    FALSE)
    /\ fsm' = Finished(KeyOf(sc))
    /\ UNCHANGED <<keys, remote>>

\* What server_key_sync makes of table tbl for server ip when its fetch returned
\* vpn_keys: the insert, the delete loop and the update loop, committed together.
SyncResult(tbl, ip, vpn_keys) ==
    LET db_keys == {RowKey(r) : r \in {q \in tbl : q.server_ip = ip}}
    IN UpdateAll(DeleteAll(tbl \cup InsertValues(ip, vpn_keys, db_keys), ip,
                           KeysToDelete(vpn_keys, db_keys)),
                 ip, KeysToUpdate(vpn_keys, db_keys))

\* The answers of a remote server to POST /access-keys/: no answer or another
\* status than 201 ("failed"); 201 for a new key id, with a body that parses
\* ("created") or not ("unparsed").
CreateAnswers(url) ==
    {<<"failed", 0>>} \cup
    (IF url \in DOMAIN remote
     THEN {<<a, id>> : a \in {"created", "unparsed"}, id \in KeyIds \ DOMAIN remote[url]}
     ELSE {})

\* enter_key_name: inside try, server_key_create(server_ip, key_name=text.strip());
\* "if server_key" the invite goes to chat_id=message.from_user.id; then
\* server_key_sync and the list of keys. Every exception (of create_key, of
\* rename_key, of the insert, of "server.name" when there is no server) is caught
\* and logged; state.finish().
enter_key_name(sc, u) ==
    /\ Handles(sc, "enter_key_name", u)
    /\ LET ip == fsm[KeyOf(sc)].data["server_ip"]
           key_name == Strip(u.text)
       IN IF server_read(ip) = {}
          THEN /\ UNCHANGED <<keys, remote>>
               /\ Turned(sc, "enter_key_name", u, FALSE, {}, FALSE)
          ELSE LET url == (CHOOSE sv \in server_read(ip) : TRUE).url
               IN \E answer \in CreateAnswers(url), rename \in {"204", "other", "raised"},
                     fetched \in BOOLEAN :
                     LET id == answer[2]
                         name == IF rename = "204" THEN key_name ELSE ""
                         made == [remote EXCEPT ![url] =
                                     (id :> [NewKey EXCEPT !.name = name]) @@ @]
                         row == ServerKey(ip, RenamedKey(CreatedKey(id, NewKey), name))
                         tbl == keys \cup {row}
                     IN IF answer[1] = "failed"
                        THEN /\ rename = "raised" /\ ~fetched
                             /\ UNCHANGED <<keys, remote>>
                             /\ Turned(sc, "enter_key_name", u, FALSE, {}, FALSE)
                        ELSE IF answer[1] = "unparsed"
                        THEN /\ rename = "raised" /\ ~fetched
                             /\ remote' = [remote EXCEPT ![url] = (id :> NewKey) @@ @]
                             /\ UNCHANGED keys
                             /\ Turned(sc, "enter_key_name", u, FALSE, {}, FALSE)
                        ELSE IF rename = "raised" \/ InsertFails(keys, {row})
                        THEN /\ ~fetched
                             /\ remote' = made
                             /\ UNCHANGED keys
                             /\ Turned(sc, "enter_key_name", u, FALSE, {}, FALSE)
                        ELSE /\ remote' = made
                             /\ keys' = IF fetched
                                        THEN SyncResult(tbl, ip,
                                                 get_keys(made[url], [i \in DOMAIN made[url] |->
                                                                         made[url][i].used_bytes]))
                                        ELSE tbl
                             /\ TurnedInvite(sc, "enter_key_name", u, FALSE,
                                             {"invite", "key list"}, TRUE,
                                             {Invite(row.access_url, sc)})
    /\ fsm' = Finished(KeyOf(sc))
    /\ UNCHANGED servers

\* bot.id: the user id of the bot account.
BotId == 9

\* A row of table user. last_name, username, mention and lang_code are written
\* wherever first_name is, from the same telegram user, and are not kept apart.
UserRow(id, is_bot, first_name, role, is_superuser) ==
    [id |-> id, is_bot |-> is_bot, first_name |-> first_name, role |-> role,
     is_superuser |-> is_superuser]

\* user_read: the rows stored for the id (at most one).
user_read(tbl, id) == {r \in tbl : r.id = id}

\* user_create(id, is_bot, first_name, .., role='user'): nothing without a first
\* name; is_superuser takes its server default, false.
user_create(tbl, id, is_bot, first_name) ==
    IF first_name = "" THEN tbl
    ELSE tbl \cup {UserRow(id, is_bot, first_name, "user", FALSE)}

\* Variant of user_update: the update also writes role='user'.
user_update_ResetsRole(tbl, id, is_bot, first_name) ==
    {IF r.id = id THEN UserRow(id, is_bot, first_name, "user", r.is_superuser) ELSE r
        : r \in tbl}

\* user_update(id, is_bot, first_name, ..): update(User).where(id).values(..); the
\* columns role and is_superuser are not among the values.
user_update(tbl, id, is_bot, first_name) ==
    {IF r.id = id THEN UserRow(id, is_bot, first_name, r.role, r.is_superuser) ELSE r
        : r \in tbl}

\* No message was tracked yet.
NoTrack ==
    [chat_id |-> 0, user_id |-> 0, lookup_user |-> "None", lookup_bot |-> "None",
     before |-> {}, merged_user |-> FALSE, merged_bot |-> FALSE, reached |-> FALSE,
     user_before |-> {}]

\* ------------------------------------------------------------ specification
\* No call is in progress, no update was handled and no message was tracked.
\* main() has stored the bot's own row of table user; no chat or membership is
\* stored.
InitIdle ==
    /\ dirty = FALSE
    /\ nev = 0
    /\ dbWriter = NoTask
    /\ task = [t \in Tasks |-> IdleTask]
    /\ prev = NoPrev
    /\ fsm = [k \in StorageKeys |-> IdleEntry]
    /\ turn = NoTurn
    /\ flow = [sc \in Scopes |-> <<>>]
    /\ nturns = 0
    /\ users = user_create({}, BotId, TRUE, "bot")
    /\ members = {}
    /\ track = NoTrack
    /\ chats = {}
    /\ log = <<>>

\* At start every remote server holds key 0 as created and the bot has stored
\* both servers; the key table is empty (no sync yet) or holds those keys.
InitCommon ==
    /\ servers = {ServerRow(ip) : ip \in ServerIps}
    /\ keys \in {{}, {ServerKey(ip, CreatedKey(0, NewKey)) : ip \in ServerIps}}
    /\ remote = [u \in Urls |-> (0 :> NewKey)]
    /\ InitIdle

\* No conversation takes part in the runs of the calls.
Init == InitCommon /\ conc = FALSE /\ active = {}

Next ==
    \/ \E t \in Tasks, ip \in CallIps : SyncCall(t, ip)
    \/ \E t \in Tasks : SyncGetKeys(t)
    \/ \E t \in Tasks : SyncGetMetrics(t)
    \/ \E t \in Tasks : SyncReadDb(t)
    \/ \E t \in Tasks : SyncInsert(t)
    \/ \E t \in Tasks : SyncDelete(t)
    \/ \E t \in Tasks : SyncUpdate(t)
    \/ \E t \in Tasks : SyncCommit(t)
    \/ \E t \in Tasks : SyncFinally(t)
    \/ \E t \in Tasks, ip \in CallIps, n \in KeyNames : CreateCall(t, ip, n)
    \/ \E t \in Tasks : CreatePost(t)
    \/ \E t \in Tasks : CreateRename(t)
    \/ \E t \in Tasks : CreateInsert(t)
    \/ \E t \in Tasks : CreateRead(t)
    \/ \E t \in Tasks, ip \in CallIps, id \in KeyIds : DeleteCall(t, ip, id)
    \/ \E t \in Tasks : DeleteRemote(t)
    \/ \E t \in Tasks : DeleteLocal(t)
    \/ \E t \in Tasks : Return(t)
    \/ \E u \in ManagedUrls, id \in KeyIds, v \in RemoteKeyVals : RemoteSet(u, id, v)
    \/ \E u \in ManagedUrls, id \in KeyIds : RemoteDrop(u, id)

\* Calls run one at a time, each to completion.
Spec == Init /\ [][Next]_vars

\* Handlers of different conversations interleave at their await points.
InitConc == InitCommon /\ conc = TRUE /\ active = {}

\* The calls that can collide on one server: each task runs one reconciliation or
\* key creation of server 1, with the remote edited out of band.
ConcIps == {1}

NextConc ==
    \/ \E t \in Tasks, ip \in ConcIps : SyncCall(t, ip)
    \/ \E t \in Tasks : SyncGetKeys(t)
    \/ \E t \in Tasks : SyncGetMetrics(t)
    \/ \E t \in Tasks : SyncReadDb(t)
    \/ \E t \in Tasks : SyncInsert(t)
    \/ \E t \in Tasks : SyncDelete(t)
    \/ \E t \in Tasks : SyncUpdate(t)
    \/ \E t \in Tasks : SyncCommit(t)
    \/ \E t \in Tasks : SyncFinally(t)
    \/ \E t \in Tasks, ip \in ConcIps, n \in KeyNames : CreateCall(t, ip, n)
    \/ \E t \in Tasks : CreatePost(t)
    \/ \E t \in Tasks : CreateRename(t)
    \/ \E t \in Tasks : CreateInsert(t)
    \/ \E t \in Tasks : CreateRead(t)
    \/ \E u \in ManagedUrls, id \in KeyIds, v \in RemoteKeyVals : RemoteSet(u, id, v)
    \/ \E u \in ManagedUrls, id \in KeyIds : RemoteDrop(u, id)

SpecConc == InitConc /\ [][NextConc]_vars

\* ------------------------------------------------- the conversations' runs
\* The updates of one scope, handled one at a time. No call is in progress
\* besides the ones a handler makes.
InitChat ==
    /\ InitCommon /\ conc = FALSE
    /\ active = {<<1, 1>>}

NextChat ==
    \E sc \in Scopes :
        \/ \E txt \in Texts :
              \/ new_server(sc, TextUpdate(txt))
              \/ enter_server_name(sc, TextUpdate(txt))
              \/ update_server_name(sc, TextUpdate(txt))
              \/ enter_server_ip(sc, TextUpdate(txt))
              \/ enter_server_url(sc, TextUpdate(txt))
              \/ myservers(sc, TextUpdate(txt))
              \/ update_key_name(sc, TextUpdate(txt))
              \/ update_server_ip(sc, TextUpdate(txt))
              \/ update_server_url(sc, TextUpdate(txt))
              \/ enter_key_name(sc, TextUpdate(txt))
        \/ \E ip \in ButtonIps :
              \/ \E a \in EditActions : edit_server_params(sc, ButtonUpdate(a, ip, 0))
              \/ new_key(sc, ButtonUpdate("KEY_NEW", ip, 0))
              \/ delete_server(sc, ButtonUpdate("SERVER_DELETE", ip, 0))
              \/ \E a \in KeyEditActions, id \in KeyIds :
                    edit_key_params(sc, ButtonUpdate(a, ip, id))

SpecChat == InitChat /\ [][NextChat]_vars

\* The updates of all scopes, handled one at a time in any order.
InitScopes ==
    /\ InitCommon /\ conc = FALSE
    /\ active = Scopes

\* The handlers taken here: the start of the new-server conversation, the rename
\* of a server, the server menu and the creation of a key.
NextScopes ==
    \E sc \in Scopes :
        \/ \E txt \in Texts :
              \/ new_server(sc, TextUpdate(txt))
              \/ enter_server_name(sc, TextUpdate(txt))
              \/ update_server_name(sc, TextUpdate(txt))
              \/ myservers(sc, TextUpdate(txt))
              \/ enter_key_name(sc, TextUpdate(txt))
        \/ \E ip \in ButtonIps :
              \/ \E a \in EditActions : edit_server_params(sc, ButtonUpdate(a, ip, 0))
              \/ delete_server(sc, ButtonUpdate("SERVER_DELETE", ip, 0))
              \/ new_key(sc, ButtonUpdate("KEY_NEW", ip, 0))

SpecScopes == InitScopes /\ [][NextScopes]_vars

\* The updates of one scope in and out of its workflows: the entries to every
\* workflow state, the texts of the new-server workflow, the commands, and the
\* buttons of the menus pressed in any state.
NextMenu ==
    \E sc \in Scopes :
        \/ \E txt \in Texts :
              \/ new_server(sc, TextUpdate(txt))
              \/ enter_server_name(sc, TextUpdate(txt))
              \/ enter_server_ip(sc, TextUpdate(txt))
              \/ myservers(sc, TextUpdate(txt))
              \/ admin_start(sc, TextUpdate(txt))
              \/ user_start(sc, TextUpdate(txt))
        \/ \E ip \in ButtonIps :
              \/ \E a \in EditActions : edit_server_params(sc, ButtonUpdate(a, ip, 0))
              \/ new_key(sc, ButtonUpdate("KEY_NEW", ip, 0))
              \/ \E a \in KeyEditActions : edit_key_params(sc, ButtonUpdate(a, ip, 0))
              \/ myservers_call(sc, ButtonUpdate("SERVER_SHOW_LIST", ip, 0))
              \/ server_actions(sc, ButtonUpdate("SERVER_CHOOSE_ACTION", ip, 0))
              \/ key_actions(sc, ButtonUpdate("KEY_CHOOSE_ACTION", ip, 0))
              \/ \E a \in IdleOnlyActions : unhandled(sc, ButtonUpdate(a, ip, 0))

SpecMenu == InitChat /\ [][NextMenu]_vars

\* ------------------------------------------------------ the storage's runs
\* The calls of the storage functions in any order and interleaving: the calls on
\* keys (server_key_sync, server_key_create, server_key_delete) step by step, and
\* the calls that are one statement and its commit as one step each. Such a
\* statement waits while another session holds the write lock.
StoreIps == ServerIps

\* server_create(ip, url, name): insert(OutlineServer); the primary key refuses an
\* address that is stored.
ServerCreateCall(ip) ==
    /\ nev < MaxEvents
    /\ dbWriter = NoTask
    /\ servers' = IF server_read(ip) = {} THEN servers \cup {ServerRow(ip)} ELSE servers
    /\ nev' = nev + 1
    /\ UNCHANGED <<keys, remote, dirty, dbWriter, task, prev, conc, chatVars>>

\* server_update(primary_key_ip=old, ip=new): the primary key refuses an address
\* another server has; the rows of server_key follow (ON UPDATE CASCADE).
ServerUpdateCall(old, new) ==
    /\ nev < MaxEvents
    /\ dbWriter = NoTask
    /\ old # new
    /\ IF server_read(old) # {} /\ server_read(new) = {}
       THEN /\ servers' = ServerUpdateIp(servers, old, new)
            /\ keys' = KeysCascade(keys, old, new)
       ELSE UNCHANGED <<servers, keys>>
    /\ nev' = nev + 1
    /\ UNCHANGED <<remote, dirty, dbWriter, task, prev, conc, chatVars>>

\* server_delete(ip): delete(OutlineServer); the foreign key of server_key
\* (ON DELETE RESTRICT) refuses it while the server has rows there.
ServerDeleteCall(ip) ==
    /\ nev < MaxEvents
    /\ dbWriter = NoTask
    /\ servers' = IF server_key_list(ip) = {} THEN {sv \in servers : sv.ip # ip} ELSE servers
    /\ nev' = nev + 1
    /\ UNCHANGED <<keys, remote, dirty, dbWriter, task, prev, conc, chatVars>>

\* server_key_update(server_ip, key_id, name): the rename of a stored key.
KeyRenameCall(ip, id, n) ==
    /\ nev < MaxEvents
    /\ dbWriter = NoTask
    /\ server_key_read(ip, id) # {}
    /\ keys' = server_key_update(keys, ip, id, n)
    /\ nev' = nev + 1
    /\ UNCHANGED <<servers, remote, dirty, dbWriter, task, prev, conc, chatVars>>

NextStore ==
    \/ \E t \in Tasks : SyncCall(t, 1)
    \/ \E t \in Tasks : SyncGetKeys(t)
    \/ \E t \in Tasks : SyncGetMetrics(t)
    \/ \E t \in Tasks : SyncReadDb(t)
    \/ \E t \in Tasks : SyncInsert(t)
    \/ \E t \in Tasks : SyncDelete(t)
    \/ \E t \in Tasks : SyncUpdate(t)
    \/ \E t \in Tasks : SyncCommit(t)
    \/ \E t \in Tasks : SyncFinally(t)
    \/ \E t \in Tasks : CreateCall(t, 1, "")
    \/ \E t \in Tasks : CreatePost(t)
    \/ \E t \in Tasks : CreateInsert(t)
    \/ \E t \in Tasks : CreateRead(t)
    \/ \E t \in Tasks : DeleteCall(t, 1, 0)
    \/ \E t \in Tasks : DeleteRemote(t)
    \/ \E t \in Tasks : DeleteLocal(t)
    \/ \E t \in Tasks : Return(t)
    \/ \E ip \in StoreIps : ServerCreateCall(ip)
    \/ \E old \in StoreIps, new \in StoreIps : ServerUpdateCall(old, new)
    \/ \E ip \in StoreIps : ServerDeleteCall(ip)
    \/ KeyRenameCall(1, 0, "a")

SpecStore == InitConc /\ [][NextStore]_vars

\* -------------------------------------------------------------- the tracker
\* DBMiddleware.pre_process runs on every message before its handler. Messages
\* come from user 1, in their private chat and in group chat 5.
\* The bot account is user BotId.
GroupChats == {5}
TrackUsers == {1}
TrackMessages == {<<5, 1>>, <<1, 1>>}
Statuses == {"member", "administrator"}
FirstNames == {"Ann", "Anna"}

\* telegram_chat.get_member(id): a ChatMember with its status, or an exception,
\* after which the variable keeps None.
Lookups == {"None"} \cup Statuses

\* telegram_chat.type: a chat is private or a group.
ChatType(chat) == IF chat \in GroupChats THEN "group" ELSE "private"

\* A row of table chat; title and username are written wherever type is.
ChatRow(chat) == [id |-> chat, type |-> ChatType(chat)]

\* chat_read: the rows stored for the chat (at most one).
chat_read(tbl, chat) == {c \in tbl : c.id = chat}

\* chat_create: insert(Chat).values(id, title, username, type).
chat_create(tbl, chat) == tbl \cup {ChatRow(chat)}

\* chat_update: update(Chat).where(id).values(id, title, username, type).
chat_update(tbl, chat) == {IF c.id = chat THEN ChatRow(chat) ELSE c : c \in tbl}

\* if telegram_chat.type != PRIVATE: chat_read, then chat_create or chat_update.
ChatUpsert(tbl, chat) ==
    IF ChatType(chat) = "private" THEN tbl
    ELSE IF chat_read(tbl, chat) = {} THEN chat_create(tbl, chat)
    ELSE chat_update(tbl, chat)

\* user_read, then user_create or user_update with the fields of the sender.
UserUpsert(tbl, user, first_name) ==
    IF user_read(tbl, user) = {} THEN user_create(tbl, user, FALSE, first_name)
    ELSE user_update(tbl, user, FALSE, first_name)

MemberRow(chat, user, status) == [chat_id |-> chat, user_id |-> user, status |-> status]

\* chat_member_read: the rows stored for the member (at most one).
chat_member_read(tbl, chat, user) ==
    {m \in tbl : m.chat_id = chat /\ m.user_id = user}

\* chat_member_create: insert(ChatMember).values(chat_id, user_id, status).
chat_member_create(tbl, chat, user, status) == tbl \cup {MemberRow(chat, user, status)}

\* chat_member_update: update(ChatMember).where(chat_id, user_id).values(status).
chat_member_update(tbl, chat, user, status) ==
    {IF m.chat_id = chat /\ m.user_id = user THEN MemberRow(chat, user, status) ELSE m
        : m \in tbl}

\* chat_member_delete: delete(ChatMember).where(chat_id, user_id).
chat_member_delete(tbl, chat, user) ==
    {m \in tbl : ~(m.chat_id = chat /\ m.user_id = user)}

\* Whether the merge of one member leaves pre_process by an exception: the else
\* branch reads telegram_chat_member.status, which None does not have; the insert
\* is refused by the foreign key when table user has no row of the member.
MergeRaises(tbl, usr, chat, user, tg) ==
    LET local == chat_member_read(tbl, chat, user) IN
    IF local = {} /\ tg # "None" THEN user_read(usr, user) = {}
    ELSE IF local # {} /\ tg = "None" THEN FALSE
    ELSE tg = "None"

\* The merge of one member into table chat_member, when it does not raise:
\* if not local and tg: create; elif local and not tg: delete; else: update.
Merge(tbl, chat, user, tg) ==
    LET local == chat_member_read(tbl, chat, user) IN
    IF local = {} /\ tg # "None" THEN chat_member_create(tbl, chat, user, tg)
    ELSE IF local # {} /\ tg = "None" THEN chat_member_delete(tbl, chat, user)
    ELSE chat_member_update(tbl, chat, user, tg)

\* pre_process(obj, data) for a message of sender user in chat: user_read and
\* user_create or user_update; in a chat that is not private the two lookups, each
\* in its own try, chat_read and chat_create or chat_update, the merge of the
\* sender and then the merge of the bot account. The row of table chat is written
\* before the merges, so the foreign key on chat_id holds. An exception leaves
\* pre_process, and the message does not reach its handler.
Track(chat, user, first_name, lookup_user, lookup_bot) ==
    LET group == ChatType(chat) # "private"
        usr == UserUpsert(users, user, first_name)
        raised1 == MergeRaises(members, usr, chat, user, lookup_user)
        tbl1 == IF raised1 THEN members ELSE Merge(members, chat, user, lookup_user)
        raised2 == MergeRaises(tbl1, usr, chat, BotId, lookup_bot)
        tbl2 == IF raised2 THEN tbl1 ELSE Merge(tbl1, chat, BotId, lookup_bot)
    IN  /\ users' = usr
        /\ members' = IF ~group THEN members ELSE IF raised1 THEN tbl1 ELSE tbl2
        /\ track' = [chat_id |-> chat, user_id |-> user,
                     lookup_user |-> IF group THEN lookup_user ELSE "None",
                     lookup_bot |-> IF group THEN lookup_bot ELSE "None",
                     before |-> members,
                     merged_user |-> group /\ ~raised1,
                     merged_bot |-> group /\ ~raised1 /\ ~raised2,
                     reached |-> ~group \/ (~raised1 /\ ~raised2),
                     user_before |-> user_read(users, user)]
        /\ chats' = ChatUpsert(chats, chat)
        /\ UNCHANGED <<servers, keys, remote, callVars, fsm, turn, flow, nturns, active, log>>

\* The operator's edit of table user, out of band: a stored user is made an
\* administrator and superuser. No code of the bot writes these columns after
\* the row is created.
SetRole(user) ==
    /\ \E r \in user_read(users, user) :
          /\ r.role = "user"
          /\ users' = (users \ {r}) \cup {UserRow(r.id, r.is_bot, r.first_name, "admin", TRUE)}
    /\ UNCHANGED <<servers, keys, remote, callVars, fsm, turn, flow, nturns, active,
                   members, track, chats, log>>

\* The messages of all senders, tracked one at a time in any order.
InitTrack == InitCommon /\ conc = FALSE /\ active = {}

NextTrack ==
    \/ \E msg \in TrackMessages, first_name \in FirstNames,
          lookup_user \in Lookups, lookup_bot \in Lookups :
            Track(msg[1], msg[2], first_name, lookup_user, lookup_bot)
    \/ \E user \in TrackUsers : SetRole(user)

SpecTrack == InitTrack /\ [][NextTrack]_vars

\* ------------------------------------------------------------ the scenario
\* One caller on a new installation: no server is stored and the remote servers
\* hold no key. The caller creates server 1, creates a key with a name,
\* reconciles, deletes a key and reconciles again, each call run to its end with
\* every outcome of its requests, and keeps what each call on keys returned.
ScenarioIp == 1
NoKeys == [id \in {} |-> NewKey]

\* The caller takes the result of call t and keeps it.
TakeResult(t) ==
    /\ task[t].pc = "done"
    /\ log' = Append(log, [key_id |-> task[t].key_id, op |-> task[t].op,
                           key_name |-> task[t].key_name, ret |-> task[t].ret,
                           remote_ok |-> task[t].remote_ok, failed |-> task[t].failed,
                           ok |-> task[t].remote_ok /\ task[t].failed = ""])
    /\ prev' = IF task[t].op = "sync"
               THEN [op |-> "sync", ip |-> task[t].ip, ret |-> task[t].ret,
                     ok |-> task[t].remote_ok /\ task[t].failed = ""]
               ELSE NoPrev
    /\ task' = [task EXCEPT ![t] = IdleTask]
    /\ UNCHANGED <<servers, keys, remote, dirty, nev, dbWriter, conc,
                   fsm, turn, flow, nturns, active, trackVars>>

InitScenario ==
    /\ servers = {}
    /\ keys = {}
    /\ remote = [u \in Urls |-> NoKeys]
    /\ InitIdle
    /\ conc = FALSE /\ active = {}

NextScenario ==
    \/ Len(log) = 0 /\ server_read(ScenarioIp) = {} /\ ServerCreateCall(ScenarioIp)
    \/ /\ Len(log) = 0 /\ server_read(ScenarioIp) # {}
       /\ \E n \in KeyNames \ {""} : CreateStart(1, ScenarioIp, n)
    \/ Len(log) \in {1, 3} /\ SyncStart(1, ScenarioIp)
    \/ Len(log) = 2 /\ \E id \in KeyIds : DeleteStart(1, ScenarioIp, id)
    \/ CreatePost(1)
    \/ CreateRename(1)
    \/ CreateInsert(1)
    \/ CreateRead(1)
    \/ SyncGetKeys(1)
    \/ SyncGetMetrics(1)
    \/ SyncReadDb(1)
    \/ SyncInsert(1)
    \/ SyncDelete(1)
    \/ SyncUpdate(1)
    \/ SyncCommit(1)
    \/ SyncFinally(1)
    \/ DeleteRemote(1)
    \/ DeleteLocal(1)
    \/ TakeResult(1)

SpecScenario == InitScenario /\ [][NextScenario]_vars

\* ------------------------------------------------- two reconciliations
\* Two callers reconcile server 1 once each, their calls interleaved at the
\* await points. The remote servers are edited out of band before the first call
\* starts and not after.
PairIp == 1

\* The calls of the pair started so far.
PairStarted == Len(log) + Cardinality({t \in Tasks : ~Idle(t)})

NextPair ==
    \/ /\ PairStarted = 0
       /\ \E id \in KeyIds, v \in RemoteKeyVals : RemoteSet(UrlOf(PairIp), id, v)
    \/ /\ PairStarted = 0
       /\ \E id \in KeyIds : RemoteDrop(UrlOf(PairIp), id)
    \/ \E t \in Tasks : PairStarted < 2 /\ SyncStart(t, PairIp)
    \/ \E t \in Tasks : SyncGetKeys(t)
    \/ \E t \in Tasks : SyncGetMetrics(t)
    \/ \E t \in Tasks : SyncReadDb(t)
    \/ \E t \in Tasks : SyncInsert(t)
    \/ \E t \in Tasks : SyncDelete(t)
    \/ \E t \in Tasks : SyncUpdate(t)
    \/ \E t \in Tasks : SyncCommit(t)
    \/ \E t \in Tasks : SyncFinally(t)
    \/ \E t \in Tasks : TakeResult(t)

SpecPair == InitConc /\ [][NextPair]_vars

\* ------------------------------------------- a key creation and a reconciliation
\* The turn of enter_key_name of one scope, call by call (server_key_create, the
\* invite "if server_key", server_key_sync), as task 1, while show_keys of
\* another scope reconciles the same server once, as task 2. The handlers
\* interleave at their await points. log keeps what the calls of enter_key_name
\* returned.
TurnIp == 1

\* enter_key_name goes on to its own server_key_sync: server_key_create has
\* returned without an exception.
CreateReturned == Len(log) = 1 /\ log[1].ret.kind # "raised"

\* "if server_key: await message.bot.send_message(chat_id=user_id, ...)"
InviteSent == Len(log) >= 1 /\ log[1].op = "create" /\ log[1].ret.kind = "row"

\* enter_key_name has reached state.finish(): its server_key_sync has returned,
\* or the exception of server_key_create was caught.
TurnEnded ==
    /\ Idle(1)
    /\ \/ Len(log) = 2
       \/ Len(log) = 1 /\ ~CreateReturned

NextKeyTurn ==
    \/ /\ Len(log) = 0
       /\ \E n \in KeyNames : CreateStart(1, TurnIp, n)
    \/ CreatePost(1)
    \/ CreateRename(1)
    \/ CreateInsert(1)
    \/ CreateRead(1)
    \/ CreateReturned /\ SyncStart(1, TurnIp)
    \/ SyncStart(2, TurnIp)
    \/ \E t \in Tasks : SyncGetKeys(t)
    \/ \E t \in Tasks : SyncGetMetrics(t)
    \/ \E t \in Tasks : SyncReadDb(t)
    \/ \E t \in Tasks : SyncInsert(t)
    \/ \E t \in Tasks : SyncDelete(t)
    \/ \E t \in Tasks : SyncUpdate(t)
    \/ \E t \in Tasks : SyncCommit(t)
    \/ \E t \in Tasks : SyncFinally(t)
    \/ TakeResult(1)

SpecKeyTurn == InitConc /\ [][NextKeyTurn]_vars

\* ------------------------------------------------------------------ claims
\* Call t has returned from operation op.
Returned(t, op) == task[t].op = op /\ task[t].pc = "done"

\* The OutlineKeys of the rows of server ip in table tbl.
KeysOf(tbl, ip) == {RowKey(r) : r \in {q \in tbl : q.server_ip = ip}}

\* The ids written by the statements of call t.
WrittenIds(t) == {st[2] : st \in task[t].stmts}

\* C1 (convergence): when server_key_sync has returned and its fetch of the remote
\* key set R succeeded, the persisted keys of the server are exactly R, in every
\* field, and the table of servers is what it was when the call started.
C1_Convergence ==
    \A t \in Tasks :
        (Returned(t, "sync") /\ task[t].remote_ok) =>
            /\ KeysOf(keys, task[t].ip) = task[t].vpn_keys
            /\ servers = task[t].preServers

\* C1 witness: a returned sync that had a key to insert and an existing key to
\* change or delete.
C1_Witness ==
    \E t \in Tasks :
        /\ Returned(t, "sync") /\ task[t].remote_ok
        /\ task[t].insert_values # {}
        /\ \/ task[t].keys_to_delete # {}
           \/ \E k \in task[t].keys_to_update : k.key_id \in KeyIdList(task[t].db_keys)

\* C2 as stated: a server_key_sync that follows a server_key_sync of the same
\* server, with remote unchanged since the first one started, executes no write
\* statement and returns what the first one returned.
C2_IdempotenceAsStated ==
    \A t \in Tasks :
        (Returned(t, "sync") /\ task[t].repeat /\ ~dirty) =>
            /\ task[t].stmts = {}
            /\ task[t].ret = task[t].prevRet

\* C2 (idempotence), amended: the same, provided the first run's remote fetch
\* succeeded.
C2_Idempotence ==
    \A t \in Tasks :
        (Returned(t, "sync") /\ task[t].again /\ ~dirty) =>
            /\ task[t].stmts = {}
            /\ task[t].ret = task[t].prevRet

\* C2 witness: a second run in a row whose own fetch succeeded, of a server that
\* has keys.
C2_Witness ==
    \E t \in Tasks :
        /\ Returned(t, "sync") /\ task[t].again /\ ~dirty
        /\ task[t].remote_ok
        /\ task[t].vpn_keys # {}

\* C3 (atomicity on remote failure): when the key list was fetched and the metrics
\* request failed, server_key_sync executes no write statement and the key table
\* is what it was when the call started.
C3_MetricsFailureWritesNothing ==
    \A t \in Tasks :
        (Returned(t, "sync") /\ task[t].failed = "metrics") =>
            /\ task[t].stmts = {}
            /\ keys = task[t].preKeys

\* C3 witness: the metrics request failed after a key list was fetched that
\* differs from the persisted keys.
C3_Witness ==
    \E t \in Tasks :
        /\ Returned(t, "sync") /\ task[t].failed = "metrics"
        /\ "GET metrics" \in task[t].reqs
        /\ DOMAIN task[t].server_keys # KeyIdList(KeysOf(keys, task[t].ip))

\* The key table after the whole batch of sync call t is applied to the committed
\* rows: the insert, then the deletes, then the updates.
Batch(t) ==
    UpdateAll(DeleteAll(keys \cup task[t].insert_values, task[t].ip, task[t].keys_to_delete),
              task[t].ip, task[t].keys_to_update)

\* C4 (single transaction): with calls interleaving, a step of a server_key_sync
\* call changes the committed key table only at its commit, and then by its whole
\* batch (insert, deletes and updates together); a call one of whose statements
\* failed never commits; and the committed table, which is all that another
\* operation reads, changes only by such a commit or by the insert of a
\* server_key_create.
C4_SingleTransaction ==
    [][/\ \A t \in Tasks :
             (task[t].op = "sync" /\ task'[t] # task[t]) =>
                 IF task[t].pc = "sync_commit"
                 THEN keys' = Batch(t) /\ task[t].failed = ""
                 ELSE keys' = keys
       /\ keys' # keys =>
             \E t \in Tasks : /\ task'[t] # task[t]
                              /\ task[t].pc \in {"sync_commit", "create_insert"}]_vars

\* C4 witness: the insert of a sync hit a row that another call had stored in the
\* meantime, and the batch of that sync also held a delete or an update of a
\* stored key.
C4_Witness ==
    \E t \in Tasks :
        /\ Returned(t, "sync") /\ task[t].failed = "db"
        /\ \/ task[t].keys_to_delete # {}
           \/ \E k \in task[t].keys_to_update : k.key_id \in KeyIdList(task[t].db_keys)

C6_UnknownServer ==
    \A t \in Tasks :
        (Returned(t, "sync") /\ \A sv \in task[t].preServers : sv.ip # task[t].ip) =>
            /\ task[t].ret = RetFalse
            /\ task[t].reqs = {}
            /\ task[t].stmts = {}
            /\ keys = task[t].preKeys
            /\ servers = task[t].preServers

\* C6 witness: a sync of address 3, which is not stored, has returned after an
\* earlier event.
C6_Witness ==
    \E t \in Tasks :
        /\ Returned(t, "sync")
        /\ task[t].ip \notin {sv.ip : sv \in servers}
        /\ nev > 1

\* The batches of sync call t have been computed.
Planned(t) ==
    /\ task[t].op = "sync"
    /\ task[t].pc \in {"sync_insert", "sync_delete", "sync_update", "sync_commit",
                       "sync_finally", "done"}
    /\ task[t].remote_ok

\* C7 (disjoint batches): in every server_key_sync the to-insert, to-delete and
\* to-update sets are pairwise disjoint by key id, and to-update holds only ids
\* present both remotely and in storage.
C7_DisjointBatches ==
    \A t \in Tasks :
        Planned(t) =>
            LET ins == {r.key_id : r \in task[t].insert_values}
                del == KeyIdList(task[t].keys_to_delete)
                upd == KeyIdList(task[t].keys_to_update)
            IN /\ ins \cap del = {}
               /\ ins \cap upd = {}
               /\ del \cap upd = {}
               /\ upd \subseteq KeyIdList(task[t].db_keys) \cap KeyIdList(task[t].vpn_keys)

\* C8 (equal keys are not written): when a server_key_sync whose fetch succeeded
\* has returned, a key that is stored with the very values the remote holds is in
\* none of the three batches and no statement of the call names its id.
C8_EqualKeysUntouched ==
    \A t \in Tasks :
        (Returned(t, "sync") /\ task[t].remote_ok) =>
            \A k \in task[t].vpn_keys \cap task[t].db_keys :
                /\ k.key_id \notin WrittenIds(t)
                /\ ServerKey(task[t].ip, k) \notin task[t].insert_values
                /\ k \notin task[t].keys_to_delete
                /\ k \notin task[t].keys_to_update

\* C8 witness: a sync that wrote some keys and found another one equal.
C8_Witness ==
    \E t \in Tasks :
        /\ Returned(t, "sync") /\ task[t].remote_ok
        /\ task[t].vpn_keys \cap task[t].db_keys # {}
        /\ task[t].stmts # {}

\* C9 (delete-then-local-confirm): server_key_delete executes its delete statement
\* only after the DELETE request was sent and answered 204; when the request was
\* answered otherwise the call does not return True and the key table is what it
\* was when the call started.
C9_DeleteAfterRemoteConfirm ==
    \A t \in Tasks :
        task[t].op = "delete" =>
            /\ task[t].stmts # {} => ("DELETE key" \in task[t].reqs /\ task[t].remote_ok)
            /\ (Returned(t, "delete") /\ task[t].failed = "delete") =>
                   (keys = task[t].preKeys /\ task[t].ret # RetTrue)

\* C9 witness: the DELETE request of a stored key was answered with another status;
\* the call returned False and the row is there.
C9_Witness ==
    \E t \in Tasks :
        /\ Returned(t, "delete") /\ task[t].failed = "delete"
        /\ task[t].ret = RetFalse
        /\ server_key_read(task[t].ip, task[t].key_id) # {}

\* C10 (failed remote create stores nothing): when the create-key request of
\* server_key_create failed, the call executes no write statement and the key
\* table is what it was when the call started.
C10_FailedCreateStoresNothing ==
    \A t \in Tasks :
        (Returned(t, "create") /\ task[t].failed = "create") =>
            /\ task[t].stmts = {}
            /\ keys = task[t].preKeys

\* C10 witness: the create-key request was answered 201 with a body that could not
\* be read: the remote holds a key that storage does not.
C10_Witness ==
    \E t \in Tasks :
        /\ Returned(t, "create") /\ task[t].failed = "create"
        /\ "POST keys" \in task[t].reqs
        /\ DOMAIN remote[task[t].url] # KeyIdList(KeysOf(keys, task[t].ip))

\* C11 (create order and outcome): server_key_create executes its insert only
\* after the create-key request and, when a name was given, the rename request;
\* and when the remote server made the key and nothing else happened meanwhile,
\* the call ends with a stored row of that key whose name is the remote name.
C11_CreatedKeyIsStored ==
    \A t \in Tasks :
        task[t].op = "create" =>
            /\ task[t].stmts # {} =>
                  /\ "POST keys" \in task[t].reqs
                  /\ task[t].key_name # "" => "PUT name" \in task[t].reqs
            /\ (Returned(t, "create") /\ task[t].remote_ok /\ nev = 1) =>
                  \E r \in server_key_read(task[t].ip, task[t].key_id) :
                      r.name = remote[task[t].url][task[t].key_id].name

\* The storage entry of the scope whose update was handled last.
Entry == fsm[KeyOf(turn.sc)]

\* C12 (rename key): after a text turn in update_key_name the key table differs
\* from what it was only if the remote rename was answered 204, and then only the
\* name of the selected row has changed, to the name the remote key now has; when
\* the rename failed or raised every row is what it was.
C12_RenameAfterRemoteConfirm ==
    turn.handler = "update_key_name" =>
        LET ip == turn.pre.data["server_ip"]
            id == turn.pre.data["key_id"]
        IN IF turn.remote_ok
           THEN /\ keys = server_key_update(turn.preKeys, ip, id, Strip(turn.update.text))
                /\ \A sv \in server_read(ip) : remote[sv.url][id].name = Strip(turn.update.text)
           ELSE keys = turn.preKeys

\* C12 witness: the rename of a stored key to another name was not confirmed by
\* the remote server.
C12_Witness ==
    /\ turn.handler = "update_key_name"
    /\ ~turn.remote_ok
    /\ \E r \in server_key_read(turn.pre.data["server_ip"], turn.pre.data["key_id"]) :
          r.name # Strip(turn.update.text)

\* C13 (commands reset the conversation): the /myservers command, in whatever
\* state it is received, is handled by myservers (not taken as the text of the
\* active step) and leaves the scope idle with no pending field.
C13_MyserversResets ==
    turn.update.text = "/myservers" =>
        /\ turn.handler = "myservers"
        /\ Entry = IdleEntry

\* The fields the entry action of a workflow stores.
EntryFields(h) ==
    IF h = "edit_server_params"
    THEN {"server_name", "server_ip", "server_url", "message_id", "chat_id"}
    ELSE IF h = "new_key" THEN {"server_ip", "message_id", "chat_id"}
    ELSE IF h = "edit_key_params" THEN {"server_ip", "key_id"}
    ELSE {}

\* C14 (no leak across workflows): when a turn has taken a scope from idle or from
\* another workflow into a workflow (by /newserver, an edit selection, new key or
\* rename key), the pending fields of the scope are fields that this turn stored.
C14_NoLeakAcrossWorkflows ==
    (/\ turn.handler \in {"new_server", "edit_server_params", "new_key", "edit_key_params"}
     /\ Entry.state \in WorkflowStates) =>
        DOMAIN Entry.data \subseteq EntryFields(turn.handler)

\* C15 (/newserver in any state): a turn whose text is /newserver is handled by
\* new_server whatever the state of the scope was, and leaves the scope in
\* enter_name with no pending field.
C15_NewServerClears ==
    turn.update.text = "/newserver" =>
        /\ turn.handler = "new_server"
        /\ Entry = [state |-> "enter_name", data |-> NoData]
        /\ servers = turn.preServers /\ keys = turn.preKeys

\* C15 witness: /newserver was received in the middle of the rename of a key, with
\* pending fields.
C15_Witness ==
    /\ turn.update.text = "/newserver"
    /\ turn.pre.state = "update_key_name"
    /\ turn.pre.data # NoData

\* C16 (field carry-over): after a text turn in enter_ip, if the text is no
\* address the scope is in enter_ip with the pending fields it had, server_ip not
\* among them; if the text is an address the scope is in enter_url, server_ip is
\* that address and the other pending fields, server_name among them, are what they
\* were. No table is changed.
C16_EnterIpCarriesName ==
    turn.handler = "enter_server_ip" =>
        /\ "server_name" \in DOMAIN Entry.data
        /\ Entry.data["server_name"] = turn.pre.data["server_name"]
        /\ IF ip_address(turn.update.text) = 0
           THEN /\ Entry = [state |-> "enter_ip", data |-> turn.pre.data]
                /\ "server_ip" \notin DOMAIN Entry.data
           ELSE /\ Entry.state = "enter_url"
                /\ Entry.data = [f \in DOMAIN turn.pre.data \cup {"server_ip"} |->
                                    IF f = "server_ip" THEN ip_address(turn.update.text)
                                    ELSE turn.pre.data[f]]
        /\ servers = turn.preServers /\ keys = turn.preKeys

\* C16 witness: an address was accepted after two texts that are no address.
C16_Witness ==
    /\ turn.handler = "enter_server_ip"
    /\ Entry.state = "enter_url"
    /\ Len(flow[turn.sc]) = 5
    /\ ip_address(flow[turn.sc][3]) = 0
    /\ ip_address(flow[turn.sc][4]) = 0

\* The turn handled last was the fourth of /newserver, a name, an address, a URL,
\* and the address was not registered.
NewServerCompleted ==
    /\ turn.handler = "enter_server_url"
    /\ Len(flow[turn.sc]) = 4
    /\ \A sv \in turn.preServers : sv.ip # ip_address(flow[turn.sc][3])

C18_ConflictCreatesNothing ==
    (/\ turn.handler = "enter_server_url"
     /\ \E sv \in turn.preServers : sv.ip = turn.pre.data["server_ip"]) =>
        /\ servers = turn.preServers
        /\ keys = turn.preKeys
        /\ turn.sent = {"something went wrong"}
        /\ Entry = IdleEntry

\* C18 witness: the URL was submitted for an address that is registered, with
\* another name and another url than the stored ones.
C18_Witness ==
    /\ turn.handler = "enter_server_url"
    /\ \E sv \in turn.preServers :
          /\ sv.ip = turn.pre.data["server_ip"]
          /\ sv.name # turn.pre.data["server_name"]
          /\ sv.url # turn.update.text

\* C19 (scope isolation): a turn of one scope leaves the state and the pending
\* fields of every other scope as they were, for two users of one chat and for one
\* user in two chats alike; the turn is handled in the state its own scope had.
C19_ScopeIsolation ==
    [][/\ \A sc \in Scopes :
             sc # turn'.sc => fsm'[KeyOf(sc)] = fsm[KeyOf(sc)]
       /\ turn'.pre = fsm[KeyOf(turn'.sc)]
       /\ Route(fsm[KeyOf(turn'.sc)].state, turn'.update) = turn'.handler]_vars

\* C19 witness: the three scopes are in the middle of three different workflows
\* at once, one of them without the pending fields the others have.
C19_Witness ==
    /\ fsm[KeyOf(<<1, 1>>)].state = "enter_name"
    /\ fsm[KeyOf(<<1, 2>>)].state = "update_name"
    /\ fsm[KeyOf(<<2, 1>>)].state = "update_url"
    /\ fsm[KeyOf(<<1, 1>>)].data = NoData
    /\ "server_ip" \in DOMAIN fsm[KeyOf(<<1, 2>>)].data
    /\ "server_ip" \in DOMAIN fsm[KeyOf(<<2, 1>>)].data

\* C20 (update_name): every text turn in update_name ends with the scope idle, the
\* server of the pending address named by the text (without its surrounding
\* whitespace) and otherwise as it was, every other server and every key as it
\* was; whether the detail message could be sent or not.
C20_UpdateNameEndsIdle ==
    turn.handler = "update_server_name" =>
        /\ Entry = IdleEntry
        /\ \E sv \in turn.preServers :
              /\ sv.ip = turn.pre.data["server_ip"]
              /\ servers = (turn.preServers \ {sv})
                               \cup {[sv EXCEPT !.name = Strip(turn.update.text)]}
        /\ keys = turn.preKeys

\* The server the pending address of the turn names, in the table as it was.
Selected == {sv \in turn.preServers : sv.ip = turn.pre.data["server_ip"]}

\* C21 (update_ip, update_url): after a text turn in update_ip, if the text is no
\* address the scope is in update_ip with its pending fields and the tables as
\* they were; if it is an address, the selected server has that address and the
\* scope is idle. After a text turn in update_url the selected server has the text
\* as url and the scope is idle.
C21_UpdateIpAndUrl ==
    /\ turn.handler = "update_server_ip" =>
          IF ip_address(turn.update.text) = 0
          THEN /\ Entry = [state |-> "update_ip", data |-> turn.pre.data]
               /\ servers = turn.preServers /\ keys = turn.preKeys
          ELSE /\ Entry = IdleEntry
               /\ servers = {[sv EXCEPT !.ip = ip_address(turn.update.text)] : sv \in Selected}
                               \cup (turn.preServers \ Selected)
               /\ Cardinality(servers) = Cardinality(turn.preServers)
    /\ turn.handler = "update_server_url" =>
          /\ Entry = IdleEntry
          /\ servers = {[sv EXCEPT !.url = turn.update.text] : sv \in Selected}
                          \cup (turn.preServers \ Selected)
          /\ keys = turn.preKeys

\* A storage call or a remote call of the text turn handled last has failed: the
\* selected server is gone, the submitted address belongs to another server, the
\* address of the new server is registered, or the key was not created or renamed.
DownstreamFailure ==
    \/ /\ turn.handler \in {"update_server_name", "update_server_url"}
       /\ Selected = {}
    \/ /\ turn.handler = "update_server_ip"
       /\ ip_address(turn.update.text) # 0
       /\ \/ Selected = {}
          \/ \E sv \in turn.preServers \ Selected : sv.ip = ip_address(turn.update.text)
    \/ /\ turn.handler = "enter_server_url"
       /\ Selected # {}
    \/ /\ turn.handler \in {"enter_key_name", "update_key_name"}
       /\ ~turn.remote_ok

\* C22 (downstream errors abort to idle): a text turn in which a storage call or a
\* remote call failed leaves the scope idle, and the failure message was sent.
C22_FailureAbortsToIdle ==
    DownstreamFailure =>
        /\ Entry = IdleEntry
        /\ "something went wrong" \in turn.sent

\* The texts that have the form of a management url.
UrlTexts == {"https://s3"}

\* C23 (malformed url): a text turn in enter_url or update_url whose text is no url
\* leaves the scope in its state with its pending fields, and the server table as
\* it was.
C23_MalformedUrlReprompts ==
    (/\ turn.handler \in {"enter_server_url", "update_server_url"}
     /\ turn.update.text \notin UrlTexts) =>
        /\ Entry = turn.pre
        /\ servers = turn.preServers

\* C24 (key name turns end idle): after a text turn in enter_key_name or in
\* update_key_name the scope is idle with no pending field, whatever became of the
\* creation or the rename; no exception leaves the handler.
C24_KeyNameTurnEndsIdle ==
    turn.handler \in {"enter_key_name", "update_key_name"} =>
        /\ Entry = IdleEntry
        /\ ~turn.raised

\* C24 witness: a key name was submitted for a server that is not stored.
C24_Witness ==
    /\ turn.handler \in {"enter_key_name", "update_key_name"}
    /\ turn.pre.data # NoData
    /\ Selected = {}

\* The rows of the selected server that the turn handled last has added.
NewRows ==
    {r \in keys : /\ r.server_ip = turn.pre.data["server_ip"]
                  /\ \A q \in turn.preKeys : q.server_ip = r.server_ip => q.key_id # r.key_id}

\* C25 (invite): after a text turn in enter_key_name an invite was sent exactly
\* when the key was created in that turn (remote key made and its row stored);
\* there is then one invite, it carries the access url of the row of the new key,
\* and it went to the private chat of the user who sent the text.
C25_InviteOnCreation ==
    turn.handler = "enter_key_name" =>
        /\ turn.invite # {} <=> turn.remote_ok
        /\ ~turn.remote_ok => keys = turn.preKeys
        /\ \A i \in turn.invite :
              /\ i.user = turn.sc[2]
              /\ \E r \in NewRows : r.access_url = i.access_url
        /\ Cardinality(turn.invite) <= 1

\* C25 witness: a key was created on request of a user writing in a chat that is
\* not the user's private chat.
C25_Witness ==
    /\ turn.handler = "enter_key_name"
    /\ turn.invite # {}
    /\ turn.sc[1] # turn.sc[2]

\* The turn handled last was a selection of the server menu on a stored server.
EditSelected(t) ==
    /\ t.handler = "edit_server_params"
    /\ \E sv \in t.preServers : sv.ip = t.update.ip

\* C26 (edit selections): a selection of edit name, ip or url on a stored server
\* stores the server's name, address and url, the id of the menu message and of
\* the chat, and enters update_name, update_ip or update_url, changing no table; a
\* selection of state flips the active flag of that server and nothing else and
\* leaves the scope idle; a second selection of state on that server right after
\* restores the server table.
C26_EditSelections ==
    [][EditSelected(turn') =>
          LET t == turn'
              sv == CHOOSE x \in t.preServers : x.ip = t.update.ip
              d == fsm'[KeyOf(t.sc)].data
          IN /\ d["server_name"] = sv.name /\ d["server_ip"] = sv.ip
             /\ d["server_url"] = sv.url
             /\ d["message_id"] = 1 /\ d["chat_id"] = t.sc[1]
             /\ keys' = t.preKeys
             /\ IF t.update.action = "SERVER_EDIT_STATE"
                THEN /\ fsm'[KeyOf(t.sc)].state = "idle"
                     /\ servers' = (t.preServers \ {sv})
                                      \cup {[sv EXCEPT !.is_active = ~sv.is_active]}
                     /\ (/\ EditSelected(turn)
                         /\ turn.update.action = "SERVER_EDIT_STATE"
                         /\ turn.update.ip = t.update.ip) => servers' = turn.preServers
                ELSE /\ servers' = t.preServers
                     /\ fsm'[KeyOf(t.sc)].state =
                           (IF t.update.action = "SERVER_EDIT_NAME" THEN "update_name"
                            ELSE IF t.update.action = "SERVER_EDIT_IP" THEN "update_ip"
                            ELSE "update_url")]_vars

\* C26 witness: the state of a server was selected twice and the server is active
\* as it was at first.
C26_Witness ==
    /\ EditSelected(turn)
    /\ turn.update.action = "SERVER_EDIT_STATE"
    /\ \E sv \in turn.preServers : sv.ip = turn.update.ip /\ ~sv.is_active
    /\ servers = {ServerRow(ip) : ip \in ServerIps}

\* C27 (cascade delete): after a delete_server turn the server of the button and
\* all rows of server_key under its address are gone, the other rows are kept.
C27_CascadeDelete ==
    turn.handler = "delete_server" =>
        /\ servers = {sv \in turn.preServers : sv.ip # turn.update.ip}
        /\ keys = {r \in turn.preKeys : r.server_ip # turn.update.ip}

\* C28 (no orphan keys): in every state reached by the storage calls in any
\* order and interleaving, every row of server_key has its server in
\* outline_server.
C28_NoOrphanKeys ==
    \A r \in keys : \E sv \in servers : sv.ip = r.server_ip

\* C28 witness: the insert of a reconciliation was refused because its server had
\* been deleted after the call read it.
C28_Witness ==
    \E t \in Tasks :
        /\ task[t].op = "sync"
        /\ task[t].failed = "db"
        /\ server_read(task[t].ip) = {}

\* The tracker met a message of a chat that is not private.
Tracked == track.chat_id # 0 /\ ChatType(track.chat_id) # "private"

\* The row of a member before and after the tracked message.
RowBefore(user) == chat_member_read(track.before, track.chat_id, user)
RowAfter(user) == chat_member_read(members, track.chat_id, user)

\* The three cases of the merge for one member whose lookup gave tg.
MergedAs(user, tg) ==
    /\ (tg = "None" /\ RowBefore(user) # {}) => RowAfter(user) = {}
    /\ (tg # "None" /\ RowBefore(user) = {}) =>
            RowAfter(user) = {MemberRow(track.chat_id, user, tg)}
    /\ (tg # "None" /\ RowBefore(user) # {}) =>
            RowAfter(user) = {MemberRow(track.chat_id, user, tg)}

\* C29 (three-way merge): after the tracker met a message of a chat that is not
\* private, for the sender and for the bot account: a row whose member is absent
\* remotely is deleted, a member present remotely with no row gets a row with the
\* remote status, and a row of a member present remotely has the remote status.
C29_ThreeWayMerge ==
    Tracked => /\ MergedAs(track.user_id, track.lookup_user)
               /\ MergedAs(BotId, track.lookup_bot)

\* A failed lookup of a member with no row writes nothing for that member.
AbsentNoOp(user, tg) ==
    (tg = "None" /\ RowBefore(user) = {}) => RowAfter(user) = {}

\* C30 (failed lookup): a tracked message of which a membership lookup failed
\* still reaches its handler, and a member whose lookup failed and who has no
\* row gets none.
C30_FailedLookupNeverAborts ==
    (Tracked /\ (track.lookup_user = "None" \/ track.lookup_bot = "None")) =>
        /\ track.reached
        /\ AbsentNoOp(track.user_id, track.lookup_user)
        /\ AbsentNoOp(BotId, track.lookup_bot)

\* C31 (sender upsert): every run of the tracker on a message leaves exactly one
\* row of the sender, with the first name of the message; the row of an unseen
\* sender has role 'user', the row of a known sender keeps its role and superuser
\* flag; the rows of other users stay; a message of a private chat changes no
\* row of the tables chat and chat_member.
C31_SenderUpsert ==
    [][\A msg \in TrackMessages, first_name \in FirstNames,
          lookup_user \in Lookups, lookup_bot \in Lookups :
            Track(msg[1], msg[2], first_name, lookup_user, lookup_bot) =>
                /\ user_read(users, msg[2]) = {} =>
                      user_read(users', msg[2]) =
                          {UserRow(msg[2], FALSE, first_name, "user", FALSE)}
                /\ \A b \in user_read(users, msg[2]) :
                      user_read(users', msg[2]) =
                          {UserRow(msg[2], FALSE, first_name, b.role, b.is_superuser)}
                /\ \A r \in users : r.id # msg[2] => r \in users'
                /\ ChatType(msg[1]) = "private" => chats' = chats /\ members' = members]_vars

\* C31 witness: the tracker met a message of a private chat whose sender was
\* stored as an administrator under another first name; chat and membership rows
\* of a group are stored.
C31_Witness ==
    /\ track.user_id # 0
    /\ ChatType(track.chat_id) = "private"
    /\ chats # {} /\ members # {}
    /\ \E b \in track.user_before, r \in user_read(users, track.user_id) :
          b.role = "admin" /\ r.role = "admin" /\ r.first_name # b.first_name

\* The first call of the scenario created a key under the name supplied.
CreatedOk ==
    /\ Len(log) >= 1
    /\ log[1].op = "create" /\ log[1].ok /\ log[1].ret.kind = "row"
    /\ \A r \in log[1].ret.rows : r.name = log[1].key_name

\* The third call of the scenario deleted the key the first call created.
DeletedOk ==
    /\ Len(log) >= 3
    /\ log[3].op = "delete" /\ log[3].ok /\ log[3].ret = RetTrue
    /\ log[3].key_id = log[1].key_id

\* C32 (end to end): after server creation and the creation of a key under a
\* name, with every remote call succeeding, the reconciliation returns exactly
\* one key, with that name and no traffic; after the deletion of that key the
\* next reconciliation returns no key.
C32_EndToEnd ==
    /\ (Len(log) >= 2 /\ CreatedOk /\ log[2].ok) =>
          /\ log[2].ret.kind = "list"
          /\ Cardinality(log[2].ret.rows) = 1
          /\ \A r \in log[2].ret.rows :
                /\ r.server_ip = ScenarioIp /\ r.key_id = log[1].key_id
                /\ r.name = log[1].key_name /\ r.used_bytes = 0
    /\ (Len(log) >= 4 /\ CreatedOk /\ log[2].ok /\ DeletedOk /\ log[4].ok) =>
          log[4].ret = RetList({})

\* C32 witness: the whole scenario ran with every remote call succeeding.
C32_Witness ==
    Len(log) = 4 /\ CreatedOk /\ log[2].ok /\ DeletedOk /\ log[4].ok

\* The rows of server 1 are those of its remote keys, one row per key.
PairConverged ==
    /\ KeysOf(keys, PairIp) =
          get_keys(remote[UrlOf(PairIp)], get_transferred_data(UrlOf(PairIp)))
    /\ \A r \in keys, q \in keys :
          (r.server_ip = q.server_ip /\ r.key_id = q.key_id) => r = q

\* C33 as stated (concurrent reconciliations): once both calls of the pair have
\* returned, the rows of the server are those of its remote keys, none twice, and
\* both callers have a list.
C33_PairConvergesAsStated ==
    Len(log) = 2 =>
        /\ PairConverged
        /\ \A i \in 1..2 : log[i].ret.kind = "list"

\* C33 amended: the same, when the fetch of at least one of the two calls
\* succeeded.
C33_PairConverges ==
    (Len(log) = 2 /\ \E i \in 1..2 : log[i].remote_ok) =>
        /\ PairConverged
        /\ \A i \in 1..2 : log[i].ret.kind = "list"

\* C33 witness: both calls fetched and planned on the same stale rows, one
\* committed and the insert of the other was refused.
C33_Witness ==
    /\ Len(log) = 2
    /\ log[1].remote_ok /\ log[2].remote_ok
    /\ \E i \in 1..2 : log[i].ok
    /\ \E i \in 1..2 : ~log[i].ok

\* The servers other than the one the edit was started on: edit_server_params
\* stored the url of that one as server_url, and no turn in update_ip writes it.
NotPicked == {sv \in turn.preServers : sv.url # turn.pre.data["server_url"]}

\* C34 (edit-address workflow): a text turn in update_ip, whatever the text and
\* whatever the turns in update_ip before it, leaves every server other than the
\* one selected when the edit was started as it was.
C34_OnlySelectedChanges ==
    turn.handler = "update_server_ip" => \A sv \in NotPicked : sv \in servers

\* C35 (a failed fetch is not an empty key set): a server_key_sync whose list-keys
\* request brought no key list (another status than 200, or a body without
\* accessKeys) executes no statement and leaves the key table as it was; one
\* whose fetch succeeded with an empty accessKeys list, and whose transaction
\* committed, leaves no key of that server and every key of the other servers. No
\* call removes a stored key that the remote server, unchanged since the call
\* started, holds.
C35_FailedFetchIsNotEmpty ==
    \A t \in Tasks :
        Returned(t, "sync") =>
            /\ task[t].failed = "keys" =>
                  /\ task[t].stmts = {}
                  /\ keys = task[t].preKeys
            /\ (task[t].remote_ok /\ task[t].failed = "" /\ task[t].vpn_keys = {}) =>
                  keys = {r \in task[t].preKeys : r.server_ip # task[t].ip}
            /\ \A r \in task[t].preKeys :
                  (~dirty /\ \A q \in keys : q.server_ip # r.server_ip \/ q.key_id # r.key_id) =>
                      /\ r.server_ip = task[t].ip
                      /\ r.key_id \notin DOMAIN remote[task[t].url]

\* C35 witness: a fetch that succeeded with an empty list has deleted the stored
\* keys of a server, after the same server kept its keys through a failed fetch.
C35_Witness ==
    \E t \in Tasks :
        /\ Returned(t, "sync") /\ task[t].remote_ok /\ task[t].vpn_keys = {}
        /\ KeysOf(task[t].preKeys, task[t].ip) # {}
        /\ task[t].repeat /\ ~task[t].again
        /\ task[t].prevRet.rows # {}

\* The rows stored for the key that server_key_create of the turn made.
CreatedRows == server_key_read(TurnIp, log[1].key_id)

\* C36 (key creation beside a reconciliation): when the create-key request of an
\* enter_key_name turn made a key and no request of the creation raised, then,
\* however the reconciliation of another scope interleaves, at the end of the turn
\* and of that reconciliation the key has exactly one stored row and its invite
\* was sent.
C36_CreatedKeyDelivered ==
    (/\ TurnEnded /\ task[2].pc = "done"
     /\ log[1].remote_ok /\ log[1].failed \notin {"create", "rename"}) =>
        /\ Cardinality(CreatedRows) = 1
        /\ InviteSent

\* The rows of table tbl of the servers other than ip, and the rows other than
\* the one of key id of server ip.
OtherRows(tbl, ip) == {r \in tbl : r.server_ip # ip}
RowsBut(tbl, ip, id) == {r \in tbl : ~(r.server_ip = ip /\ r.key_id = id)}

\* C37 (rows of other servers): no step of a server_key_sync, server_key_create
\* or server_key_delete call for a server changes a key row of another server;
\* a step of a key creation or deletion changes no row but the one of its server
\* and key id; and the rename of key 0 of server 1 changes no other row. The
\* servers hold keys with the same key ids.
C37_OnlyOwnRows ==
    [][/\ \A t \in Tasks :
             (task'[t] # task[t] /\ task[t].op # "none") =>
                 /\ OtherRows(keys', task[t].ip) = OtherRows(keys, task[t].ip)
                 /\ task[t].op \in {"create", "delete"} =>
                       RowsBut(keys', task[t].ip, task'[t].key_id) =
                           RowsBut(keys, task[t].ip, task'[t].key_id)
       /\ (keys' # keys /\ task' = task /\ servers' = servers) =>
             RowsBut(keys', 1, 0) = RowsBut(keys, 1, 0)]_vars

\* C37 witness: a reconciliation of server 1 has deleted or updated its row of key
\* 0 while server 2 has a row of key 0.
C37_Witness ==
    \E t \in Tasks :
        /\ Returned(t, "sync") /\ task[t].ip = 1 /\ task[t].failed = ""
        /\ task[t].stmts \cap {<<"delete", 0>>, <<"update", 0>>} # {}
        /\ server_key_read(2, 0) # {}

\* C38 (/start): a /start command, whatever the state of its scope, is taken by
\* admin_start or user_start and by no handler of a workflow step; after it the
\* scope is idle with no pending fields, and the tables are as they were.
C38_StartResets ==
    (turn.update.kind = "text" /\ IsCommand(turn.update.text, "/start")) =>
        /\ turn.handler \in {"admin_start", "user_start"}
        /\ Entry = IdleEntry
        /\ servers = turn.preServers /\ keys = turn.preKeys

\* C38 witness: /start arrived in a workflow state with pending fields.
C38_Witness ==
    /\ turn.update.kind = "text" /\ IsCommand(turn.update.text, "/start")
    /\ turn.pre.state = "enter_ip"
    /\ turn.pre.data # NoData

\* C39 (menu buttons in a workflow state): a button pressed while the scope is in
\* a workflow state changes no table; a button whose handler is registered
\* without state is taken by no handler and leaves the state and the pending
\* fields as they were; the show-list button is taken and leaves the scope idle;
\* the choose-server-action and choose-key-action buttons are taken and leave the
\* state and the pending fields as they were.
C39_MenuInWorkflow ==
    (turn.update.kind = "button" /\ turn.pre.state \in WorkflowStates) =>
        /\ servers = turn.preServers /\ keys = turn.preKeys
        /\ turn.update.action \in IdleOnlyActions =>
              turn.handler = "none" /\ Entry = turn.pre
        /\ turn.update.action = "SERVER_SHOW_LIST" =>
              turn.handler = "myservers_call" /\ Entry = IdleEntry
        /\ turn.update.action = "SERVER_CHOOSE_ACTION" =>
              turn.handler = "server_actions" /\ Entry = turn.pre
        /\ turn.update.action = "KEY_CHOOSE_ACTION" =>
              turn.handler = "key_actions" /\ Entry = turn.pre

\* C39 witness: the edit-address button of a stored server was pressed while the
\* scope was entering the name of a key.
C39_Witness ==
    /\ turn.update.kind = "button" /\ turn.update.action = "SERVER_EDIT_IP"
    /\ turn.update.ip = 1
    /\ turn.pre.state = "enter_key_name"
    /\ turn.handler = "none"

\* The address that the server changed by the turn had, and the one it has now.
OldIp == turn.pre.data["server_ip"]
NewIp == ip_address(turn.update.text)

\* C40 (address change keeps the keys): after a text turn in update_ip that changed
\* the address of a server, every key row that had the old address has the new
\* one and is otherwise as it was, no key row has the old address, and the other
\* key rows are as they were.
C40_KeysFollowAddress ==
    (turn.handler = "update_server_ip" /\ servers # turn.preServers) =>
        /\ \A r \in turn.preKeys :
              r.server_ip = OldIp => [r EXCEPT !.server_ip = NewIp] \in keys
        /\ \A r \in keys : r.server_ip # OldIp
        /\ OtherRows(keys, NewIp) = OtherRows(turn.preKeys, OldIp)
        /\ Cardinality(keys) = Cardinality(turn.preKeys)

\* C40 witness: the address of a server that has a stored key was changed.
C40_Witness ==
    /\ turn.handler = "update_server_ip" /\ servers # turn.preServers
    /\ \E r \in turn.preKeys : r.server_ip = OldIp

====
